---- MODULE Spec2Model ----
(***************************************************************************)
(* A model of pycasio's single-pass translator (pycasio/compiler.py), its  *)
(* symbol table and slot pools (pycasio/context.py) and its module         *)
(* registry (pycasio/module_helper.py).                                    *)
(*                                                                         *)
(* Byte strings are sequences of integers 0..255, a ModulePath is the      *)
(* sequence of its segments, and a dictionary key (a dotted string) is the *)
(* sequence of its segments as well: str(ModulePath) is a bijection        *)
(* between the two, and ModulePath's __eq__/__hash__ compare that string.  *)
(* Python's None, where a byte string is expected, is NoneBytes.           *)
(***************************************************************************)
EXTENDS Integers, Sequences, FiniteSets, TLC

VARIABLES
    symbols,    \* SymbolTable (a dict): key -> index of its Symbol in syms
    syms,       \* every Symbol object created by SymbolTable.new, in creation order
    free_vars,  \* SymbolTable.free_vars: type -> list of free storage tokens
    code,       \* CasioContext.code: the emitted lines
    warned,     \* the warnings surfaced through warnings.warn
    flags,      \* CasioContext.flags (CompilerFlags)
    error,      \* the exception that ended the compilation, or NoError
    body,       \* the top-level statements of ctx.ast visited so far
    last        \* what the latest operation was and what it returned or raised

vars == <<symbols, syms, free_vars, code, warned, flags, error, body, last>>

----------------------------------------------------------------------------
(* Bounds of the model *)

MaxStmts == 3
MaxMinor == 1
MaxSyms == 3

----------------------------------------------------------------------------
(* pycasio/bytecode.py: the Bytecode table *)

B_DISP == <<12>>
B_ASSIGN == <<14>>
B_EXP == <<15>>
B_LT_EQUAL == <<16>>
B_NOT_EQUAL == <<17>>
B_GT_EQUAL == <<18>>
B_MOD == <<127, 58>>
B_AND == <<127, 176>>
B_OR == <<127, 177>>
B_NOT == <<127, 179>>
B_XOR == <<127, 180>>
B_NEGATIVE == <<135>>
B_ADD == <<137>>
B_ABSOLUTE == <<151>>
B_SUBTRACT == <<153>>
B_INT == <<166>>
B_POWER == <<168>>
B_MULTIPLY == <<169>>
B_DIVIDE == <<185>>
B_RADIUS == <<205>>
B_THETA == <<206>>
B_FLOOR == <<222>>
B_STRING == <<249, 63>>

(* ASCII, as produced by str.encode() and by the b"..." literals of the source *)
LPAREN == <<40>>
RPAREN == <<41>>
COMMA == <<44>>
QUESTION == <<63>>
QUOTE == <<34>>
EQUALS == <<61>>
LESS == <<60>>
GREATER == <<62>>

NoneBytes == <<-1>>

----------------------------------------------------------------------------
(* pycasio/context.py: CasioType *)

T_NULL == "null"
T_NUMBER == "num"
T_STRING == "str"

(* pycasio/compiler.py: CodeFlags, an IntFlag modelled as the set of its bits *)
PREVENT_EXPRESSION == "PREVENT_EXPRESSION"
PREVENT_ASSIGNMENT == "PREVENT_ASSIGNMENT"
PREVENT_ARGUMENT == "PREVENT_ARGUMENT"
HAS_SIDE_EFFECTS == "HAS_SIDE_EFFECTS"
IS_BOOLEAN == "IS_BOOLEAN"

(* CompilerFlags is imported by compiler.py from context.py, which does not  *)
(* define it, and CasioContext sets no flags attribute: both are modelled    *)
(* from the specification's single warning-suppression flag.                 *)
IGNORE_WARNINGS == "IGNORE_WARNINGS"
CompilerFlags == {{}, {IGNORE_WARNINGS}}

----------------------------------------------------------------------------
(* Python helpers *)

RECURSIVE Digits(_)
(* str(n).encode() of a natural number *)
Digits(n) == IF n < 10 THEN <<48 + n>> ELSE Digits(n \div 10) \o <<48 + (n % 10)>>

(* bytes.replace(old, new) for a one-byte old *)
ReplaceByte(bs, old, new) ==
    LET RECURSIVE R(_)
        R(i) == IF i > Len(bs) THEN <<>>
                ELSE (IF bs[i] = old THEN new ELSE <<bs[i]>>) \o R(i + 1)
    IN R(1)

(* sep.join(list) *)
Join(sep, list) ==
    LET RECURSIVE J(_)
        J(i) == IF i > Len(list) THEN <<>>
                ELSE IF i = Len(list) THEN list[i]
                ELSE list[i] \o sep \o J(i + 1)
    IN J(1)

Front(s) == SubSeq(s, 1, Len(s) - 1)
Last(s) == s[Len(s)]
Range(s) == {s[i] : i \in DOMAIN s}

----------------------------------------------------------------------------
(* pycasio/exceptions.py: the diagnostics; Python's own exceptions keep    *)
(* their Python names                                                      *)

NoError == [kind |-> "none"]

(* msg is the message template, named the CasioType values interpolated    *)
(* into it, help the help text's template, options the names the help      *)
(* text lists                                                              *)
Err(kind, msg, named, help, options) ==
    [kind |-> kind, msg |-> msg, named |-> named, help |-> help, options |-> options]

Raise(err) == [tag |-> "Raise", err |-> err]
NoneResult == [tag |-> "None"]
PathResult(p) == [tag |-> "ModulePath", path |-> p]

----------------------------------------------------------------------------
(* pycasio/module_helper.py *)

PACKAGE == <<"pycasio">>
CASIO_PACKAGE_NAME == "casio"
CASIO_LIB == PACKAGE \o <<CASIO_PACKAGE_NAME>>

(* ModulePath.is_child *)
is_child(self, child) ==
    IF Len(child) <= Len(self) THEN FALSE
    ELSE self = SubSeq(child, 1, Len(self))

(* ModulePath.__contains__ *)
path_contains(self, item) == self = item \/ is_child(self, item)

(* ModulePath.is_direct_child: the source compares self[:-1] with child *)
is_direct_child(self, child) ==
    IF Len(self) + 1 # Len(child) THEN FALSE
    ELSE Front(self) = child

(* ModulePath.get_direct_children *)
get_direct_children(self, modules) == {m \in modules : is_direct_child(self, m)}

(* The modules pkgutil.iter_modules finds in pycasio/casio, a path relative  *)
(* to the working directory: the translator is run from the directory that  *)
(* holds the package                                                        *)
CasioLibModules == {"input"}

(* inspect.getmembers of a module built by importlib.util.module_from_spec: *)
(* the module is never executed, so it holds only the attributes the import *)
(* machinery sets                                                           *)
LoadedMembers(lib) ==
    {[name |-> n, private |-> TRUE, callable |-> FALSE] :
        n \in {"__name__", "__doc__", "__package__", "__loader__", "__spec__",
               "__file__", "__cached__"}}

(* get_pycasio_functions *)
get_pycasio_functions ==
    [lib \in {CASIO_LIB \o <<m>> : m \in CasioLibModules} |->
        {mem.name : mem \in {x \in LoadedMembers(lib) : ~x.private /\ x.callable}}]

(* get_pycasio_modules *)
get_pycasio_modules == (DOMAIN get_pycasio_functions) \cup {PACKAGE, CASIO_LIB}

----------------------------------------------------------------------------
(* pycasio/context.py: Symbol and SymbolTable.  A table state T is the      *)
(* record [symbols, syms, free_vars].                                       *)

BytesValue(bs) == [isPath |-> FALSE, bytes |-> bs, path |-> <<>>]
PathValue(p) == [isPath |-> TRUE, bytes |-> <<>>, path |-> p]

(* Symbol.__init__ *)
Symbol(name, value, var_type) ==
    [name |-> name, value |-> value, type |-> var_type, var |-> NoneBytes]

(* SymbolTable.__init__: free_vars *)
NumberPool ==
    <<B_THETA, B_RADIUS, <<90>>>> \o [i \in 1..23 |-> <<88 - i>>]
StringPool == [i \in 1..20 |-> B_STRING \o Digits(i)]
InitFreeVars == [t \in {T_NUMBER, T_STRING} |-> IF t = T_NUMBER THEN NumberPool ELSE StringPool]

(* get finding the first symbol that was given the name instead of the one *)
(* the name is bound to                                                     *)
TableGet_first(T, key) ==
    IF key \in DOMAIN T.symbols
    THEN CHOOSE i \in DOMAIN T.syms :
            T.syms[i].name = key /\ \A j \in 1..(i - 1) : T.syms[j].name # key
    ELSE 0

(* SymbolTable.get; 0 stands for None *)
TableGet(T, key) == IF key \in DOMAIN T.symbols THEN T.symbols[key] ELSE 0

(* alloc reading the last token without taking it off the list *)
alloc_peek(pool) ==
    IF Len(pool) = 0
    THEN [ok |-> FALSE, var |-> NoneBytes, pool |-> pool]
    ELSE [ok |-> TRUE, var |-> pool[Len(pool)], pool |-> pool]

(* SymbolTable.alloc: list.pop() takes the last token, and raises          *)
(* IndexError on an empty list                                             *)
alloc(pool) ==
    IF Len(pool) = 0
    THEN [ok |-> FALSE, var |-> NoneBytes, pool |-> pool]
    ELSE [ok |-> TRUE, var |-> Last(pool), pool |-> Front(pool)]

(* add returning to its pool the token of the symbol the name was bound to *)
add_release(T, sym) ==
    LET idx == Len(T.syms) + 1
        old == IF sym.name \in DOMAIN T.symbols THEN T.symbols[sym.name] ELSE 0 IN
    [T EXCEPT !.syms = Append(T.syms, sym),
              !.symbols = [k \in DOMAIN T.symbols \cup {sym.name} |->
                              IF k = sym.name THEN idx ELSE T.symbols[k]],
              !.free_vars = IF old # 0 /\ T.syms[old].var # NoneBytes
                            THEN [@ EXCEPT ![T.syms[old].type] = Append(@, T.syms[old].var)]
                            ELSE @]

(* SymbolTable.add *)
add(T, sym) ==
    LET idx == Len(T.syms) + 1 IN
    [T EXCEPT !.syms = Append(T.syms, sym),
              !.symbols = [k \in DOMAIN T.symbols \cup {sym.name} |->
                              IF k = sym.name THEN idx ELSE T.symbols[k]]]

(* new handing out the first token of the pool instead of the last *)
new_first(T, var_type, name, value) ==
    IF var_type # T_NULL
    THEN IF T.free_vars[var_type] = <<>>
         THEN [T |-> T, sym |-> Symbol(name, value, var_type),
               err |-> Err("IndexError", "pop from empty list", <<>>, "", {})]
         ELSE [T |-> add([T EXCEPT !.free_vars[var_type] = Tail(@)],
                         [Symbol(name, value, var_type) EXCEPT !.var = T.free_vars[var_type][1]]),
               sym |-> [Symbol(name, value, var_type) EXCEPT !.var = T.free_vars[var_type][1]],
               err |-> NoError]
    ELSE [T |-> add(T, Symbol(name, value, var_type)), sym |-> Symbol(name, value, var_type),
          err |-> NoError]

(* SymbolTable.new: returns the table, the new symbol and the exception    *)
new(T, var_type, name, value) ==
    LET sym == Symbol(name, value, var_type) IN
    IF var_type # T_NULL
    THEN LET a == alloc(T.free_vars[var_type]) IN
         IF ~a.ok
         THEN [T |-> T, sym |-> sym,
               err |-> Err("IndexError", "pop from empty list", <<>>, "", {})]
         ELSE LET s2 == [sym EXCEPT !.var = a.var] IN
              [T |-> add([T EXCEPT !.free_vars[var_type] = a.pool], s2),
               sym |-> s2, err |-> NoError]
    ELSE [T |-> add(T, sym), sym |-> sym, err |-> NoError]

(* free returning the token to the pool while the symbol keeps it *)
free_keep(T, i) ==
    IF T.syms[i].var # NoneBytes
    THEN [T EXCEPT !.free_vars[T.syms[i].type] = Append(@, T.syms[i].var)]
    ELSE T

(* SymbolTable.free, on the symbol object syms[i]: append returns None,    *)
(* which becomes the symbol's var                                          *)
free(T, i) ==
    LET sym == T.syms[i] IN
    IF sym.var # NoneBytes
    THEN [T EXCEPT !.free_vars[sym.type] = Append(@, sym.var),
                   !.syms[i].var = NoneBytes]
    ELSE T

----------------------------------------------------------------------------
(* pycasio/context.py: get_casio_ref_type and CasioContext.lookup_casio_ref *)

(* get_casio_ref_type: the tag of the pair returned, "none" for (None, ''), *)
(* and "bare None" for the `return None` that is no pair                    *)
get_casio_ref_type(ref) ==
    IF ref \in get_pycasio_modules THEN "mod"
    ELSE IF Front(ref) \notin DOMAIN get_pycasio_functions THEN "none"
    ELSE IF Last(ref) \notin get_pycasio_functions[Front(ref)] THEN "bare None"
    ELSE "func"

(* CasioContext.lookup_casio_ref: a ModulePath, None, or an exception *)
lookup_casio_ref(T, mod) ==
    LET hits == {i \in 1..Len(mod) : TableGet(T, SubSeq(mod, 1, i)) # 0} IN
    IF hits = {} THEN NoneResult
    ELSE LET i == CHOOSE j \in hits : \A k \in hits : j <= k
             sym_ref == T.syms[TableGet(T, SubSeq(mod, 1, i))]
         IN
         IF ~sym_ref.value.isPath
         THEN Raise(Err("AssertionError", "symbol {symbol} = {full_ref} which is not a ModulePath",
                        <<>>, "", {}))
         ELSE LET full == sym_ref.value.path \o SubSeq(mod, i + 1, Len(mod))
                  ref_type == get_casio_ref_type(full)
              IN
              IF ref_type = "bare None"
              THEN Raise(Err("TypeError", "cannot unpack non-iterable NoneType object",
                             <<>>, "", {}))
              ELSE IF ref_type # "none" THEN PathResult(full)
              ELSE NoneResult

----------------------------------------------------------------------------
(* pycasio/compiler.py: Code and the expression visitors.  A node is a      *)
(* record with the fields of its ast class and kind = the class name.  A    *)
(* visitor returns a Code, a ModulePath (PathResult), None (NoneResult) or  *)
(* the exception it raises (Raise).                                         *)

(* Code.__init__ *)
Code(raw_code, expr_type, fl) ==
    [tag |-> "Code", bytes |-> raw_code, type |-> expr_type,
     flags |-> IF expr_type = T_NULL
               THEN fl \cup {PREVENT_ASSIGNMENT, PREVENT_ARGUMENT}
               ELSE fl]

(* CodeFlags.debug_msg *)
debug_msg(fl) ==
    LET can_expr == PREVENT_EXPRESSION \notin fl
        can_assign == PREVENT_ASSIGNMENT \notin fl
        can_arg == PREVENT_ARGUMENT \notin fl
    IN IF can_expr /\ ~can_assign /\ ~can_arg
       THEN "This expression must be used like a statement"
       ELSE IF ~can_expr /\ can_assign /\ ~can_arg
       THEN "This expression must be used in an assignment"
       ELSE ""

RECURSIVE visit(_, _)

(* check_eval, on the value the visit returned *)
require_code(node_eval) ==
    IF node_eval.tag = "Raise" THEN node_eval
    ELSE IF node_eval.tag # "Code"
    THEN Raise(Err("CasioAssignmentError", "{node type} produced {type} which is NOT Code",
                   <<>>, "", {}))
    ELSE node_eval

(* CasioNodeVisitor.check_eval *)
check_eval(T, node) == require_code(visit(T, node))

(* the first exception among the results of a sequence of visits, None     *)
(* when there is none                                                       *)
first_raise(results) ==
    LET raised == {i \in 1..Len(results) : results[i].tag = "Raise"} IN
    IF raised = {} THEN NoneResult
    ELSE results[CHOOSE i \in raised : \A j \in raised : i <= j]

(* NodeVisitor.generic_visit: visits the child nodes and returns None *)
generic_visit(T, children) ==
    first_raise([i \in 1..Len(children) |-> visit(T, children[i])])

(* visit_Name handing out the symbol's value in place of its storage token *)
visit_Name_value(T, node) ==
    LET i == TableGet(T, <<node.id>>) IN
    IF i # 0 THEN Code(T.syms[i].value.bytes, T.syms[i].type, {})
    ELSE Raise(Err("CasioNameError", "{name} is not defined", <<>>, "", {}))

(* CasioNodeVisitor.visit_Name *)
visit_Name(T, node) ==
    LET i == TableGet(T, <<node.id>>) IN
    IF i # 0 THEN Code(T.syms[i].var, T.syms[i].type, {})
    ELSE Raise(Err("CasioNameError", "{name} is not defined", <<>>, "", {}))

(* visit_Attribute, on the value lookup_casio_ref returned *)
attribute_result(full_ref) ==
    IF full_ref.tag = "None"
    THEN Raise(Err("CasioImportError", "{value} is not a valid casio reference", <<>>, "", {}))
    ELSE full_ref

(* CasioNodeVisitor.visit_Attribute; node.chain is resolve_attr(node) *)
visit_Attribute(T, node) == attribute_result(lookup_casio_ref(T, node.chain))

(* isinstance(node.value, int) or isinstance(node.value, float): bool is a  *)
(* subclass of int                                                          *)
is_number_instance(value) == value.t \in {"int", "bool", "float"}

(* str(node.value).encode() of a number constant *)
py_str(value) ==
    IF value.t = "bool"
    THEN (IF value.n = 1 THEN <<84, 114, 117, 101>> ELSE <<70, 97, 108, 115, 101>>)
    ELSE Digits(value.n)

(* CasioNodeVisitor.visit_Constant.  The literals of the model lie within   *)
(* +-CASIO_MAX (9.999999999e99), where min(max(value, -CASIO_MAX),          *)
(* CASIO_MAX) returns value itself.                                         *)
visit_Constant(T, node) ==
    IF node.value.t = "str"
    THEN Code(QUOTE \o node.value.s \o QUOTE, T_STRING, {})
    ELSE IF is_number_instance(node.value)
    THEN Code(ReplaceByte(py_str(node.value), 101, B_EXP), T_NUMBER, {})
    ELSE Raise(Err("CasioNotSupportedError", "{type} type not supported", <<>>, "", {}))

(* visit_Call.check_args: whether it raises *)
check_args(node, count) == Len(node.args) > count

TooManyArguments ==
    Raise(Err("CasioOperationError",
              "Too many arguments for {func_name} call, expected {count}, got {n}", <<>>, "", {}))

(* eval_arg testing the PREVENT_ARGUMENT flag before the NULL type *)
checked_arg_flag_first(last_code) ==
    IF last_code.tag = "Raise" THEN last_code
    ELSE IF PREVENT_ARGUMENT \in last_code.flags
    THEN Raise(Err("CasioOperationError", "This expression cannot be used as an argument",
                   <<>>, debug_msg(last_code.flags), {}))
    ELSE IF last_code.type = T_NULL
    THEN Raise(Err("CasioTypeError", "This expression does not return a value",
                   <<>>, debug_msg(last_code.flags), {}))
    ELSE last_code

(* visit_Call.eval_arg, on the Code check_eval returned *)
checked_arg(last_code) ==
    IF last_code.tag = "Raise" THEN last_code
    ELSE IF last_code.type = T_NULL
    THEN Raise(Err("CasioTypeError", "This expression does not return a value",
                   <<>>, debug_msg(last_code.flags), {}))
    ELSE IF PREVENT_ARGUMENT \in last_code.flags
    THEN Raise(Err("CasioOperationError", "This expression cannot be used as an argument",
                   <<>>, debug_msg(last_code.flags), {}))
    ELSE last_code

(* visit_Call.eval_arg *)
eval_arg(T, node, i) ==
    IF Len(node.args) <= i
    THEN Raise(Err("CasioOperationError",
                   "Not enough arguments for {func_name} call, expected arg {i}", <<>>, "", {}))
    ELSE checked_arg(check_eval(T, node.args[i + 1]))

(* visit_Call.check_type, applied to the argument just evaluated *)
check_type(last_code, expected) ==
    IF last_code.tag = "Raise" THEN last_code
    ELSE IF last_code.type # expected
    THEN Raise(Err("CasioTypeError", "{func_name} expects {expected}, not {type}",
                   <<expected, last_code.type>>, "", {}))
    ELSE last_code

(* check_args(1); eval_arg(0); check_type(expected): the argument's Code,   *)
(* or the exception                                                         *)
one_arg(T, node, expected) ==
    IF check_args(node, 1) THEN TooManyArguments
    ELSE check_type(eval_arg(T, node, 0), expected)

(* visit_Call, func_name == "abs": the Code returned for the argument n *)
abs_code(n) ==
    IF n.tag = "Raise" THEN n
    ELSE Code(B_ABSOLUTE \o LPAREN \o n.bytes \o RPAREN, T_NUMBER, {})

call_abs(T, node) == abs_code(one_arg(T, node, T_NUMBER))

(* visit_Call, func_name == "input": the Code returned *)
InputFlags == {PREVENT_ARGUMENT, PREVENT_EXPRESSION, HAS_SIDE_EFFECTS}

input_code(s) ==
    IF s.tag = "Raise" THEN s
    ELSE Code(s.bytes \o QUESTION, T_STRING, InputFlags)

call_input(T, node) ==
    IF check_args(node, 1) THEN TooManyArguments
    ELSE IF Len(node.args) = 0 THEN Code(QUESTION, T_STRING, InputFlags)
    ELSE input_code(check_type(eval_arg(T, node, 0), T_STRING))

(* visit_Call, func_name == "int": B.INT + b"(" + n + b")" adds the Code n  *)
(* itself to bytes, which Python refuses with a TypeError                   *)
int_code(n) ==
    IF n.tag = "Raise" THEN n
    ELSE Raise(Err("TypeError", "can't concat Code to bytes", <<>>, "", {}))

call_int(T, node) == int_code(one_arg(T, node, T_NUMBER))

(* visit_Call, func_name == "bool": the Code returned for the argument n *)
bool_code(n) ==
    IF n.tag = "Raise" THEN n
    ELSE Code(n.bytes, n.type, {IS_BOOLEAN})

call_bool(T, node) == bool_code(one_arg(T, node, T_NUMBER))

(* visit_Call, func_name == "print", one argument: the Code returned *)
print_code(u) ==
    IF u.tag = "Raise" THEN u
    ELSE Code(u.bytes \o B_DISP, T_NULL, {HAS_SIDE_EFFECTS})

(* print without arguments yielding a Code without the side-effect flag *)
call_print_skip(T, node) ==
    IF Len(node.args) = 0 THEN Code(<<>>, T_NULL, {})
    ELSE IF Len(node.args) = 1 THEN print_code(eval_arg(T, node, 0))
    ELSE NoneResult

(* visit_Call, func_name == "print": with two arguments or more no branch   *)
(* returns, and the call yields None                                        *)
call_print(T, node) ==
    IF Len(node.args) = 0 THEN Code(<<>>, T_NULL, {HAS_SIDE_EFFECTS})
    ELSE IF Len(node.args) = 1 THEN print_code(eval_arg(T, node, 0))
    ELSE NoneResult

NotImplementedBuiltins == {"complex", "len", "list", "max", "min", "range", "round", "sum"}

(* CasioNodeVisitor.visit_Call *)
visit_Call(T, node) ==
    IF node.func.kind # "Name"
    THEN Raise(Err("CasioNotImplementedException", "Dynamic function naming is not supported",
                   <<>>, "", {}))
    ELSE LET func_name == node.func.id IN
         CASE func_name = "abs" -> call_abs(T, node)
           [] func_name = "input" -> call_input(T, node)
           [] func_name = "int" -> call_int(T, node)
           [] func_name = "bool" -> call_bool(T, node)
           [] func_name = "print" -> call_print(T, node)
           [] func_name \in NotImplementedBuiltins ->
                Raise(Err("CasioNotImplementedException", "{func_name} not implemented yet",
                          <<>>, "", {}))
           [] OTHER ->
                Raise(Err("CasioNotSupportedError", "{func_name} built-in function is not supported",
                          <<>>, "Try checking the casio library for similar functions.", {}))

(* visit_UnaryOp, on the operand's Code *)
unary_result(op, expr_eval) ==
    IF expr_eval.tag = "Raise" THEN expr_eval
    ELSE IF expr_eval.type # T_NUMBER
    THEN Raise(Err("CasioTypeError", "Unary operations only supported with numbers", <<>>, "", {}))
    ELSE CASE op = "USub" -> Code(B_NEGATIVE \o expr_eval.bytes, expr_eval.type, expr_eval.flags)
           [] op = "UAdd" -> expr_eval
           [] op = "Not" -> Code(B_NOT \o expr_eval.bytes, expr_eval.type, {IS_BOOLEAN})
           [] OTHER -> Raise(Err("CasioNotSupportedError", "This operation is not supported by Casio",
                                 <<>>, "Bitwise operators are unsupported", {}))

(* CasioNodeVisitor.visit_UnaryOp *)
visit_UnaryOp(T, node) == unary_result(node.op, check_eval(T, node.operand))

(* the flags of a binary operation joined with | in place of & *)
bin_flags_or(left_eval, right_eval) == left_eval.flags \cup right_eval.flags

(* visit_BinOp: flags = left_eval.flags & right_eval.flags *)
bin_flags(left_eval, right_eval) == left_eval.flags \cap right_eval.flags

(* simple_bin leaving out the parentheses *)
simple_bin_bare(left_eval, operator, right_eval, fl) ==
    Code(left_eval.bytes \o operator \o right_eval.bytes, left_eval.type, fl)

(* visit_BinOp.simple_bin *)
simple_bin(left_eval, operator, right_eval, fl) ==
    Code(LPAREN \o left_eval.bytes \o operator \o right_eval.bytes \o RPAREN, left_eval.type, fl)

(* visit_BinOp, the BitXor branch: flags & CodeFlags.IS_BOOLEAN *)
xor_is_logical(fl) == IS_BOOLEAN \in fl

(* visit_BinOp, after the type checks: the dispatch on the operator *)
bin_result(op, left_eval, right_eval) ==
    LET fl == bin_flags(left_eval, right_eval) IN
    CASE op = "Mult" -> simple_bin(left_eval, B_MULTIPLY, right_eval, fl)
      [] op = "Add" -> simple_bin(left_eval, B_ADD, right_eval, fl)
      [] op = "Sub" -> simple_bin(left_eval, B_SUBTRACT, right_eval, fl)
      [] op = "Div" -> simple_bin(left_eval, B_DIVIDE, right_eval, fl)
      [] op = "Pow" -> simple_bin(left_eval, B_POWER, right_eval, fl)
      [] op = "Mod" ->
            Code(B_MOD \o left_eval.bytes \o COMMA \o right_eval.bytes \o RPAREN, T_NUMBER, fl)
      [] op = "FloorDiv" ->
            Code(B_FLOOR \o LPAREN \o left_eval.bytes \o B_DIVIDE \o right_eval.bytes \o RPAREN,
                 T_NUMBER, fl)
      [] op = "BitXor" ->
            IF xor_is_logical(fl) THEN simple_bin(left_eval, B_XOR, right_eval, fl)
            ELSE Raise(Err("CasioNotSupportedError", "Bitwise XOR is not supported by Casio", <<>>,
                           "You can wrap each operand in bool() to use logical XOR instead", {}))
      [] OTHER ->
            Raise(Err("CasioNotSupportedError", "{op} binary operation is not supported by Casio",
                      <<>>, "", {}))

(* the checks of visit_BinOp without the comparison of the two types *)
bin_type_error_left(left_eval, right_eval) ==
    IF left_eval.type # T_NUMBER
    THEN Err("CasioTypeError", "Binary operations only supported with numbers", <<>>, "", {})
    ELSE NoError

(* visit_BinOp, the checks of the operand types *)
bin_type_error(left_eval, right_eval) ==
    IF left_eval.type # right_eval.type
    THEN Err("CasioTypeError", "Types are not compatible: {left type} and {right type}",
             <<left_eval.type, right_eval.type>>, "", {})
    ELSE IF left_eval.type # T_NUMBER
    THEN Err("CasioTypeError", "Binary operations only supported with numbers", <<>>, "", {})
    ELSE NoError

(* visit_BinOp, on the operands' Codes: left is evaluated first *)
binop_result(op, left_eval, right_eval) ==
    IF left_eval.tag = "Raise" THEN left_eval
    ELSE IF right_eval.tag = "Raise" THEN right_eval
    ELSE IF bin_type_error(left_eval, right_eval) # NoError
    THEN Raise(bin_type_error(left_eval, right_eval))
    ELSE bin_result(op, left_eval, right_eval)

(* CasioNodeVisitor.visit_BinOp *)
visit_BinOp(T, node) ==
    binop_result(node.op, check_eval(T, node.left), check_eval(T, node.right))

(* visit_Compare: the bytes of a comparison operator, NoneBytes for one    *)
(* the final else rejects                                                   *)
compare_op(op) ==
    CASE op = "Eq" -> EQUALS
      [] op = "Lt" -> LESS
      [] op = "Gt" -> GREATER
      [] op = "LtE" -> B_LT_EQUAL
      [] op = "GtE" -> B_GT_EQUAL
      [] op = "NotEq" -> B_NOT_EQUAL
      [] OTHER -> NoneBytes

(* visit_Compare: the error for an operand that is not a NUMBER *)
compare_type_error(left_eval) ==
    Err("CasioTypeError", "Comparison must be between numbers, not {type}",
        <<left_eval.type>>, "", {})

RECURSIVE compare_walk(_, _, _, _)
(* visit_Compare, the loop: evals[i] is check_eval of the i-th operand,     *)
(* which the loop reaches only when no earlier step raised                  *)
compare_walk(ops, evals, i, code_bytes) ==
    IF evals[i].tag = "Raise" THEN evals[i]
    ELSE IF evals[i].type # T_NUMBER THEN Raise(compare_type_error(evals[i]))
    ELSE IF i > Len(ops) THEN Code(code_bytes \o evals[i].bytes \o RPAREN, T_NUMBER, {IS_BOOLEAN})
    ELSE IF compare_op(ops[i]) = NoneBytes
    THEN Raise(Err("CasioNotSupportedError",
                   "{op} comparison operator is not supported by Casio", <<>>, "", {}))
    ELSE compare_walk(ops, evals, i + 1, code_bytes \o evals[i].bytes \o compare_op(ops[i]))

(* the operands (node.left, *node.comparators) *)
compare_operands(node) == <<node.left>> \o node.comparators

(* the walk after a test of the types of all the operands *)
types_first(ops, evals) ==
    IF \E i \in DOMAIN evals : evals[i].tag = "Code" /\ evals[i].type # T_NUMBER
    THEN Raise(compare_type_error(
            evals[CHOOSE i \in DOMAIN evals : evals[i].tag = "Code" /\ evals[i].type # T_NUMBER]))
    ELSE compare_walk(ops, evals, 1, LPAREN)

(* visit_Compare testing the types of all operands before any operator *)
visit_Compare_types_first(T, node) ==
    types_first(node.ops,
                [i \in 1..(Len(node.comparators) + 1) |-> check_eval(T, compare_operands(node)[i])])

(* CasioNodeVisitor.visit_Compare: zip(comparators, ops, comparators[1:])   *)
(* yields one triple per operand, the last with op None                     *)
visit_Compare(T, node) ==
    compare_walk(node.ops,
                 [i \in 1..(Len(node.comparators) + 1) |-> check_eval(T, compare_operands(node)[i])],
                 1, LPAREN)

(* visit_BoolOp: the error for an operand that is not a NUMBER *)
boolop_type_error(eval_value) ==
    Err("CasioTypeError", "Boolean operator must be between numbers, not {type}",
        <<eval_value.type>>, "", {})

(* visit_BoolOp.bool_op *)
bool_op(operator, eval_values) ==
    Code(LPAREN \o Join(operator, [k \in 1..Len(eval_values) |-> eval_values[k].bytes]) \o RPAREN,
         T_NUMBER, {IS_BOOLEAN})

RECURSIVE boolop_walk(_, _, _)
(* visit_BoolOp, the loop over node.values and the dispatch on the operator *)
boolop_walk(op, evals, i) ==
    IF i > Len(evals)
    THEN CASE op = "And" -> bool_op(B_AND, evals)
           [] op = "Or" -> bool_op(B_OR, evals)
           [] OTHER -> Raise(Err("CasioNotSupportedError",
                                 "{op} boolean operation is not supported by Casio", <<>>, "", {}))
    ELSE IF evals[i].tag = "Raise" THEN evals[i]
    ELSE IF evals[i].type # T_NUMBER THEN Raise(boolop_type_error(evals[i]))
    ELSE boolop_walk(op, evals, i + 1)

(* CasioNodeVisitor.visit_BoolOp *)
visit_BoolOp(T, node) ==
    boolop_walk(node.op, [i \in 1..Len(node.values) |-> check_eval(T, node.values[i])], 1)

(* NodeVisitor.visit: the dispatch on the node's class; a class without a   *)
(* visit_ method goes to generic_visit                                      *)
visit(T, node) ==
    CASE node.kind = "Name" -> visit_Name(T, node)
      [] node.kind = "Attribute" -> visit_Attribute(T, node)
      [] node.kind = "Call" -> visit_Call(T, node)
      [] node.kind = "Constant" -> visit_Constant(T, node)
      [] node.kind = "UnaryOp" -> visit_UnaryOp(T, node)
      [] node.kind = "BinOp" -> visit_BinOp(T, node)
      [] node.kind = "Compare" -> visit_Compare(T, node)
      [] node.kind = "BoolOp" -> visit_BoolOp(T, node)
      [] OTHER -> generic_visit(T, node.children)

----------------------------------------------------------------------------
(* pycasio/compiler.py: the statement visitors.  A context C is the record  *)
(* [T, code, warned, flags]; a statement visitor returns the context it     *)
(* leaves and the exception it raised (NoError when it returned).           *)

Done(C) == [C |-> C, err |-> NoError]
Fail(C, e) == [C |-> C, err |-> e]

NoStatementWarning(msg) == [kind |-> "CasioNoStatementWarning", msg |-> msg]

(* CasioNodeVisitor.warning *)
warning(C, w) ==
    IF IGNORE_WARNINGS \in C.flags THEN C
    ELSE [C EXCEPT !.warned = Append(@, w)]

(* an import binding the imported name whether or not an alias is given *)
bound_name_plain(name) == name.name

(* name.asname or name.name *)
bound_name(name) == IF name.asname # <<>> THEN name.asname ELSE name.name

(* an alias registered as a NUMBER symbol, which takes a slot *)
new_alias_number(C, key, path) == [C EXCEPT !.T = new(C.T, T_NUMBER, key, PathValue(path)).T]

(* the symbols.new(CasioType.NULL, ...) of an import or an alias assignment *)
new_alias(C, key, path) == [C EXCEPT !.T = new(C.T, T_NULL, key, PathValue(path)).T]

(* visit_Import registering every name it does not reject *)
import_action_all(name) ==
    IF name.name \notin get_pycasio_modules /\ is_child(PACKAGE, name.name) THEN "reject"
    ELSE "register"

(* visit_Import: whether a name is registered, rejected or ignored *)
import_action(name) ==
    IF name.name \in get_pycasio_modules THEN "register"
    ELSE IF is_child(PACKAGE, name.name) THEN "reject"
    ELSE "ignore"

RECURSIVE import_names(_, _, _)
(* visit_Import, the loop over node.names *)
import_names(C, names, i) ==
    IF i > Len(names) THEN Done(C)
    ELSE IF import_action(names[i]) = "register"
    THEN import_names(new_alias(C, bound_name(names[i]), names[i].name), names, i + 1)
    ELSE IF import_action(names[i]) = "reject"
    THEN Fail(C, Err("CasioImportError", "{name} is not a {package} module", <<>>,
                     "Possible modules: {list}", get_pycasio_modules))
    ELSE import_names(C, names, i + 1)

(* CasioNodeVisitor.visit_Import *)
visit_Import(C, node) == import_names(C, node.names, 1)

(* visit_ImportFrom: mod not in mh.PACKAGE *)
outside_package(mod) == ~path_contains(PACKAGE, mod)

(* the loop body of visit_ImportFrom taking paths of three segments for      *)
(* packages as well                                                         *)
import_from_error_depth(mod, name) ==
    IF Len(mod) <= 3
    THEN IF mod \o name.name \notin get_pycasio_modules
         THEN Err("CasioImportError", "{name} is not a valid {module} module", <<>>,
                  "Possible modules: {list}", get_direct_children(mod, get_pycasio_modules))
         ELSE NoError
    ELSE IF Last(name.name) \notin get_pycasio_functions[mod]
    THEN Err("CasioImportError", "{name} is not a valid {module} function", <<>>,
             "Possible functions: {list}", {<<f>> : f \in get_pycasio_functions[mod]})
    ELSE NoError

(* visit_ImportFrom, the body of the loop over node.names: the exception    *)
(* for one name, NoError when the name is registered                        *)
import_from_error(mod, name) ==
    LET full_name == mod \o name.name IN
    IF Len(mod) <= 2
    THEN IF full_name \notin get_pycasio_modules
         THEN Err("CasioImportError", "{name} is not a valid {module} module", <<>>,
                  "Possible modules: {list}", get_direct_children(mod, get_pycasio_modules))
         ELSE NoError
    ELSE LET valid_func_names == get_pycasio_functions[mod] IN
         IF Last(name.name) \notin valid_func_names
         THEN Err("CasioImportError", "{name} is not a valid {module} function", <<>>,
                  "Possible functions: {list}", {<<f>> : f \in valid_func_names})
         ELSE NoError

RECURSIVE import_from_names(_, _, _, _)
(* visit_ImportFrom, the loop over node.names *)
import_from_names(C, mod, names, i) ==
    IF i > Len(names) THEN Done(C)
    ELSE IF import_from_error(mod, names[i]) # NoError
    THEN Fail(C, import_from_error(mod, names[i]))
    ELSE import_from_names(new_alias(C, bound_name(names[i]), mod \o names[i].name),
                           mod, names, i + 1)

(* CasioNodeVisitor.visit_ImportFrom; node.module is <<>> for a relative    *)
(* import without a module name                                             *)
visit_ImportFrom(C, node) ==
    IF outside_package(node.module) THEN Done(C)
    ELSE IF node.module \notin get_pycasio_modules
    THEN Fail(C, Err("CasioImportError", "{module} is not a valid {package} module", <<>>,
                     "Possible modules: {list}", get_pycasio_modules))
    ELSE import_from_names(C, node.module, node.names, 1)

(* visit_Expr keeping the bytes of every expression that is not a call *)
expr_outcome_keep(is_call, exp_eval) ==
    IF is_call
    THEN IF PREVENT_EXPRESSION \in exp_eval.flags THEN "raise"
         ELSE IF HAS_SIDE_EFFECTS \in exp_eval.flags THEN "append"
         ELSE "warn call"
    ELSE "append"

(* visit_Expr: what becomes of a statement whose expression evaluated to    *)
(* exp_eval                                                                 *)
expr_outcome(is_call, exp_eval) ==
    IF is_call
    THEN IF PREVENT_EXPRESSION \in exp_eval.flags THEN "raise"
         ELSE IF HAS_SIDE_EFFECTS \in exp_eval.flags THEN "append"
         ELSE "warn call"
    ELSE "warn statement"

(* visit_Expr dropping a call without side effects without a warning *)
expr_result_quiet(C, is_call, exp_eval) ==
    IF exp_eval.tag = "Raise" THEN Fail(C, exp_eval.err)
    ELSE CASE expr_outcome(is_call, exp_eval) = "raise" ->
                Fail(C, Err("CasioOperationError", "This call cannot be used as a statement",
                            <<>>, debug_msg(exp_eval.flags), {}))
           [] expr_outcome(is_call, exp_eval) = "append" ->
                Done([C EXCEPT !.code = Append(@, exp_eval.bytes)])
           [] expr_outcome(is_call, exp_eval) = "warn call" -> Done(C)
           [] OTHER ->
                Done(warning(C, NoStatementWarning("Statement has no effect and will not be included")))

(* visit_Expr, on the Code check_eval returned *)
expr_result(C, is_call, exp_eval) ==
    IF exp_eval.tag = "Raise" THEN Fail(C, exp_eval.err)
    ELSE CASE expr_outcome(is_call, exp_eval) = "raise" ->
                Fail(C, Err("CasioOperationError", "This call cannot be used as a statement",
                            <<>>, debug_msg(exp_eval.flags), {}))
           [] expr_outcome(is_call, exp_eval) = "append" ->
                Done([C EXCEPT !.code = Append(@, exp_eval.bytes)])
           [] expr_outcome(is_call, exp_eval) = "warn call" ->
                Done(warning(C, NoStatementWarning("Call has no side effects and will not be included")))
           [] OTHER ->
                Done(warning(C, NoStatementWarning("Statement has no effect and will not be included")))

(* CasioNodeVisitor.visit_Expr *)
visit_Expr(C, node) ==
    expr_result(C, node.value.kind = "Call", check_eval(C.T, node.value))

(* visit_Assign: the line appended for a Code right-hand side, given what   *)
(* symbols.new returned                                                     *)
assign_line(C, right_eval, r) ==
    IF r.err # NoError THEN Fail(C, r.err)
    ELSE Done([C EXCEPT !.T = r.T,
                        !.code = Append(@, right_eval.bytes \o B_ASSIGN \o r.sym.var)])

(* visit_Assign leaving the symbol of a name already bound as it is, and     *)
(* assigning to the token that symbol holds                                 *)
assign_code_stale(C, id, right_eval) ==
    IF TableGet(C.T, <<id>>) # 0
    THEN Done([C EXCEPT !.code = Append(@, right_eval.bytes \o B_ASSIGN
                                            \o C.T.syms[TableGet(C.T, <<id>>)].var)])
    ELSE assign_line(C, right_eval, new(C.T, right_eval.type, <<id>>, BytesValue(right_eval.bytes)))

(* visit_Assign, a Name target and a Code right-hand side: symbols.new and  *)
(* the appended line                                                        *)
assign_code(C, id, right_eval) ==
    assign_line(C, right_eval, new(C.T, right_eval.type, <<id>>, BytesValue(right_eval.bytes)))

(* visit_Assign, the body of the loop over node.targets *)
assign_target(C, left_sym, right_eval) ==
    IF left_sym.kind = "Name"
    THEN IF right_eval.tag = "Code"
         THEN IF right_eval.type = T_NULL
              THEN Fail(C, Err("CasioTypeError", "This expression does not return a value",
                               <<>>, debug_msg(right_eval.flags), {}))
              ELSE IF PREVENT_ASSIGNMENT \in right_eval.flags
              THEN Fail(C, Err("CasioOperationError",
                               "This expression cannot be used in an assignment",
                               <<>>, debug_msg(right_eval.flags), {}))
              ELSE assign_code(C, left_sym.id, right_eval)
         ELSE IF right_eval.tag = "ModulePath"
         THEN Done(new_alias(C, <<left_sym.id>>, right_eval.path))
         ELSE Fail(C, Err("CasioAssignmentError",
                          "Can't assign to this expression (couldn't parse {class})",
                          <<>>, "", {}))
    ELSE Fail(C, Err("CasioAssignmentError", "Can't assign to this symbol", <<>>, "", {}))

RECURSIVE assign_targets(_, _, _, _)
(* visit_Assign, the loop over node.targets; r is what the previous target  *)
(* left                                                                     *)
assign_targets(r, targets, right_eval, i) ==
    IF r.err # NoError \/ i > Len(targets) THEN r
    ELSE assign_targets(assign_target(r.C, targets[i], right_eval), targets, right_eval, i + 1)

(* visit_Assign, on the value self.visit(right) returned *)
assign_result(C, targets, right_eval) ==
    IF right_eval.tag = "Raise" THEN Fail(C, right_eval.err)
    ELSE assign_targets(Done(C), targets, right_eval, 1)

(* the targets after the first, each against the right-hand side evaluated  *)
(* anew in the context the targets before it left                           *)
RECURSIVE assign_each(_, _, _)
assign_each(r, node, i) ==
    IF r.err # NoError \/ i > Len(node.targets) THEN r
    ELSE assign_each(assign_result(r.C, <<node.targets[i]>>, visit(r.C.T, node.value)),
                     node, i + 1)

(* visit_Assign evaluating the right-hand side once for every target *)
visit_Assign_each(C, node) == assign_each(Done(C), node, 1)

(* CasioNodeVisitor.visit_Assign *)
visit_Assign(C, node) == assign_result(C, node.targets, visit(C.T, node.value))

(* generic_visit of a statement without a visit_ method *)
other_result(C, r) == IF r.tag = "Raise" THEN Fail(C, r.err) ELSE Done(C)

(* NodeVisitor.visit on a statement of the module's body *)
visit_stmt(C, node) ==
    CASE node.kind = "Import" -> visit_Import(C, node)
      [] node.kind = "ImportFrom" -> visit_ImportFrom(C, node)
      [] node.kind = "Expr" -> visit_Expr(C, node)
      [] node.kind = "Assign" -> visit_Assign(C, node)
      [] OTHER -> other_result(C, generic_visit(C.T, node.children))

----------------------------------------------------------------------------
(* The syntax trees the translator is given: constructors of the ast nodes  *)

Name(id) == [kind |-> "Name", id |-> id]
Num(n) == [kind |-> "Constant", value |-> [t |-> "int", n |-> n, s |-> <<>>]]
Str(s) == [kind |-> "Constant", value |-> [t |-> "str", n |-> 0, s |-> s]]
Bool(b) == [kind |-> "Constant", value |-> [t |-> "bool", n |-> IF b THEN 1 ELSE 0, s |-> <<>>]]
NoneConst == [kind |-> "Constant", value |-> [t |-> "NoneType", n |-> 0, s |-> <<>>]]
Attribute(chain) == [kind |-> "Attribute", chain |-> chain]
Call(f, args) == [kind |-> "Call", func |-> Name(f), args |-> args]
UnaryOp(op, operand) == [kind |-> "UnaryOp", op |-> op, operand |-> operand]
BinOp(left, op, right) == [kind |-> "BinOp", left |-> left, op |-> op, right |-> right]
Compare(left, ops, comparators) ==
    [kind |-> "Compare", left |-> left, ops |-> ops, comparators |-> comparators]
BoolOp(op, values) == [kind |-> "BoolOp", op |-> op, values |-> values]

Assign(targets, value) == [kind |-> "Assign", targets |-> targets, value |-> value]
ExprStmt(value) == [kind |-> "Expr", value |-> value]
Alias(name, asname) == [name |-> name, asname |-> asname]
Import(names) == [kind |-> "Import", names |-> names]
ImportFrom(module, names) == [kind |-> "ImportFrom", module |-> module, names |-> names]

(* statements of node kinds for which the visitor has no visit_ method;      *)
(* children are the child nodes ast.iter_child_nodes yields that can raise  *)
Pass == [kind |-> "Pass", children |-> <<>>]
If(test, orelse) == [kind |-> "If", children |-> <<test>> \o orelse]
AugAssign(target, value) == [kind |-> "AugAssign", children |-> <<target, value>>]

(* "a".encode() *)
BytesA == <<97>>

----------------------------------------------------------------------------
(* The state machine *)

Table == [symbols |-> symbols, syms |-> syms, free_vars |-> free_vars]
Ctx == [T |-> Table, code |-> code, warned |-> warned, flags |-> flags]

(* CasioContext.__init__ and SymbolTable.__init__, as compile_source calls  *)
(* them                                                                     *)
InitContext ==
    /\ symbols = <<>>
    /\ syms = <<>>
    /\ free_vars = InitFreeVars
    /\ code = <<>>
    /\ warned = <<>>
    /\ error = NoError
    /\ body = <<>>
    /\ last = [op |-> "init"]

Init == InitContext /\ flags \in CompilerFlags
InitDefault == InitContext /\ flags = {}

(* the context and the exception a statement visitor left *)
Leaves(r) ==
    /\ symbols' = r.C.T.symbols
    /\ syms' = r.C.T.syms
    /\ free_vars' = r.C.T.free_vars
    /\ code' = r.C.code
    /\ warned' = r.C.warned
    /\ error' = r.err

(* compile_source: visitor.visit(node) reaches, through generic_visit of    *)
(* the Module, the next statement of the body; an exception ends the visit  *)
Compile(stmt) ==
    /\ error = NoError
    /\ Leaves(visit_stmt(Ctx, stmt))
    /\ body' = Append(body, stmt)
    /\ last' = [op |-> "visit"]
    /\ UNCHANGED flags

(* Programs of assignments, prints and bare names *)
VarNames == {"x", "y"}
AssignStmts ==
    {Assign(<<Name(n)>>, v) : n \in VarNames, v \in {Num(3), Num(4), Str(BytesA)}}
ExprStmts ==
    {ExprStmt(Name(n)) : n \in VarNames}
    \cup {ExprStmt(Call("print", <<BinOp(Name("x"), "Add", Name("y"))>>)),
          ExprStmt(Call("print", <<Name("x")>>))}

StmtAssign == Len(body) < MaxStmts /\ \E s \in AssignStmts : Compile(s)
StmtExpr == Len(body) < MaxStmts /\ \E s \in ExprStmts : Compile(s)

Next == StmtAssign \/ StmtExpr
Spec == Init /\ [][Next]_vars

----------------------------------------------------------------------------
(* Properties of the translation of assignments, prints and bare names      *)

(* the storage token of the symbol bound to a name *)
SlotOf(id) == syms[symbols[<<id>>]].var

ScenarioA ==
    <<Assign(<<Name("x")>>, Num(3)),
      Assign(<<Name("y")>>, Num(4)),
      ExprStmt(Call("print", <<BinOp(Name("x"), "Add", Name("y"))>>))>>

(* C4: compiling x = 3, y = 4, print(x + y) in a fresh context succeeds and *)
(* emits exactly three lines in source order: 3 assigned to x's slot, 4     *)
(* assigned to y's slot, the two slots being distinct and the two tokens    *)
(* popped first from the NUMBER pool, then "(" x's slot ADD y's slot ")"    *)
(* DISP.                                                                    *)
C4_ScenarioA ==
    body = ScenarioA =>
        /\ error = NoError
        /\ Len(code) = 3
        /\ SlotOf("x") = NumberPool[Len(NumberPool)]
        /\ SlotOf("y") = NumberPool[Len(NumberPool) - 1]
        /\ SlotOf("x") # SlotOf("y")
        /\ free_vars[T_NUMBER] = SubSeq(NumberPool, 1, Len(NumberPool) - 2)
        /\ code[1] = Digits(3) \o B_ASSIGN \o SlotOf("x")
        /\ code[2] = Digits(4) \o B_ASSIGN \o SlotOf("y")
        /\ code[3] = LPAREN \o SlotOf("x") \o B_ADD \o SlotOf("y") \o RPAREN \o B_DISP

C4_Witness == body = ScenarioA /\ Len(code) = 3

(* the statement a step visits is a bare reference to a defined name *)
BareNameStep ==
    /\ Len(body') = Len(body) + 1
    /\ body'[Len(body')].kind = "Expr"
    /\ body'[Len(body')].value.kind = "Name"
    /\ <<body'[Len(body')].value.id>> \in DOMAIN symbols

----------------------------------------------------------------------------
(* Programs that drain a slot pool: the k-th statement assigns a number or  *)
(* a string to a name of its own, or assigns again to the first name.       *)

FreshName(k) == "v" \o ToString(k)
PoolValues == {Num(0), Str(BytesA)}

(* the statements that are not "a fresh name gets what the first one got"   *)
Minor(b) ==
    Cardinality({i \in 2..Len(b) :
                    b[i].value # b[1].value \/ b[i].targets[1].id = FreshName(1)})

PoolStep(stmt) == Minor(Append(body, stmt)) <= MaxMinor /\ Compile(stmt)

AssignFresh ==
    \E v \in PoolValues : PoolStep(Assign(<<Name(FreshName(Len(body) + 1))>>, v))
AssignAgain ==
    Len(body) > 0 /\ \E v \in PoolValues : PoolStep(Assign(<<Name(FreshName(1))>>, v))

NextPool == AssignFresh \/ AssignAgain
SpecPool == InitDefault /\ [][NextPool]_vars

(* the CasioType visit_Constant gives a number or string literal *)
LiteralType(node) == IF node.value.t = "str" THEN T_STRING ELSE T_NUMBER

(* the step visits an assignment of a literal to a name already bound to a  *)
(* NUMBER or STRING symbol                                                  *)
RebindStep ==
    /\ Len(body') = Len(body) + 1
    /\ body'[Len(body')].kind = "Assign"
    /\ <<body'[Len(body')].targets[1].id>> \in DOMAIN symbols
    /\ syms[symbols[<<body'[Len(body')].targets[1].id>>]].type # T_NULL

(* what RebindStep does to the table, for the key k, the literal v and its  *)
(* type t                                                                   *)
RebindEffect(k, v, t) ==
    IF free_vars[t] = <<>>
    THEN /\ error' # NoError
         /\ UNCHANGED <<symbols, syms, free_vars, code>>
    ELSE /\ error' = NoError
         /\ free_vars' = [free_vars EXCEPT ![t] = Front(@)]
         /\ symbols'[k] = Len(syms) + 1
         /\ symbols'[k] # symbols[k]
         /\ syms'[symbols'[k]] =
                [name |-> k, value |-> BytesValue(visit_Constant(Table, v).bytes),
                 type |-> t, var |-> Last(free_vars[t])]
         /\ syms'[symbols[k]] = syms[symbols[k]]
         /\ syms[symbols[k]].var \notin Range(free_vars'[syms[symbols[k]].type])
         /\ code' = Append(code, visit_Constant(Table, v).bytes \o B_ASSIGN \o Last(free_vars[t]))

(* the statement as C1 gives it: a second assignment to a name bound to a   *)
(* NUMBER or STRING symbol leaves the number of free tokens of each pool as *)
(* it was                                                                   *)
C1_NoNewSlot ==
    [][RebindStep => \A t \in DOMAIN free_vars : Len(free_vars'[t]) = Len(free_vars[t])]_vars

(* C1: a second assignment to a name bound to a NUMBER or STRING symbol     *)
(* binds the name to a new symbol with the new value and type, which takes  *)
(* the last token of the pool of the new type: that pool has one free token *)
(* fewer, the other pool is unchanged, and the token of the symbol bound    *)
(* before is not returned to its pool; when the pool of the new type is     *)
(* empty the assignment raises and the table stays as it was.               *)
C1_Rebind ==
    [][RebindStep =>
        RebindEffect(<<body'[Len(body')].targets[1].id>>, body'[Len(body')].value,
                     LiteralType(body'[Len(body')].value))]_vars

C1_Witness ==
    /\ Len(body) = 3
    /\ body[1] = Assign(<<Name(FreshName(1))>>, Num(0))
    /\ body[3] = Assign(<<Name(FreshName(1))>>, Num(0))
    /\ error = NoError
    /\ Len(syms) = 3
    /\ Len(free_vars[T_NUMBER]) = Len(NumberPool) - 3

(* the step visits an assignment of a literal whose pool is empty *)
EmptyPoolStep ==
    /\ Len(body') = Len(body) + 1
    /\ body'[Len(body')].kind = "Assign"
    /\ free_vars[LiteralType(body'[Len(body')].value)] = <<>>

(* C2: an assignment that must allocate from an empty pool fails with the   *)
(* allocation exception, CasioAllocationException, and with nothing else.   *)
C2_AllocationException ==
    [][EmptyPoolStep => error'.kind = "CasioAllocationException"]_vars

----------------------------------------------------------------------------
(* The symbol table on its own: any caller's sequence of new and free, free *)
(* being given any Symbol that new returned                                 *)

TableNames == {"x", "y"}
TableValues ==
    [t \in {T_NULL, T_NUMBER, T_STRING} |->
        CASE t = T_NULL -> PathValue(CASIO_LIB)
          [] t = T_NUMBER -> BytesValue(Digits(0))
          [] OTHER -> BytesValue(QUOTE \o BytesA \o QUOTE)]

(* the table and the exception symbols.new left *)
NewLeaves(r) ==
    /\ symbols' = r.T.symbols
    /\ syms' = r.T.syms
    /\ free_vars' = r.T.free_vars
    /\ error' = r.err
    /\ last' = [op |-> "new", name |-> r.sym.name]

TableNew ==
    /\ error = NoError
    /\ Len(syms) < MaxSyms
    /\ \E n \in TableNames, t \in DOMAIN TableValues :
            NewLeaves(new(Table, t, <<n>>, TableValues[t]))
    /\ UNCHANGED <<code, warned, flags, body>>

(* the table symbols.free left *)
FreeLeaves(T, i) ==
    /\ symbols' = T.symbols
    /\ syms' = T.syms
    /\ free_vars' = T.free_vars
    /\ last' = [op |-> "free", name |-> syms[i].name]

TableFree ==
    /\ error = NoError
    /\ \E i \in DOMAIN syms : FreeLeaves(free(Table, i), i)
    /\ UNCHANGED <<code, warned, flags, error, body>>

NextTable == TableNew \/ TableFree
SpecTable == InitDefault /\ [][NextTable]_vars

(* the symbols that hold a storage token *)
Holders == {i \in DOMAIN syms : syms[i].var # NoneBytes}

(* C3: after any sequence of new and free no storage token is held by two   *)
(* symbols, no token held by a symbol is in a free pool, and no token is    *)
(* twice in the pools.                                                      *)
C3_TokensUnique ==
    /\ \A i, j \in Holders : i # j => syms[i].var # syms[j].var
    /\ \A i \in Holders : \A t \in DOMAIN free_vars : syms[i].var \notin Range(free_vars[t])
    /\ \A t \in DOMAIN free_vars :
          \A m, n \in DOMAIN free_vars[t] : m # n => free_vars[t][m] # free_vars[t][n]

(* a token was freed and handed out again *)
C3_Witness ==
    /\ last.op = "new"
    /\ \E i \in DOMAIN syms : syms[i].type = T_NUMBER /\ syms[i].var = NoneBytes
    /\ \E j \in Holders : syms[j].var = NumberPool[Len(NumberPool)] /\ j > 1

----------------------------------------------------------------------------
(* Programs of operators and literals: x is bound to a literal, then y is   *)
(* assigned operations over literals, bool() calls and x, or bare literals  *)

MaxOps == 1

Operands == {Num(1), Str(BytesA), Call("bool", <<Num(0)>>), Name("x")}
BinOps == {"Mult", "Add", "Sub", "Div", "Pow", "Mod", "FloorDiv", "BitXor", "BitAnd"}
CompareOps == {"Eq", "Lt", "Gt", "LtE", "GtE", "NotEq", "In"}
BoolOps == {"And", "Or"}
Literals == {Num(1), Str(BytesA), Bool(TRUE), Bool(FALSE), NoneConst}

AssignY(e) == Assign(<<Name("y")>>, e)
MoreOps == Len(body) >= 1 /\ Len(body) - 1 < MaxOps

Prelude == body = <<>> /\ \E v \in {Num(1), Str(BytesA)} : Compile(Assign(<<Name("x")>>, v))
OpBin ==
    MoreOps /\ \E op \in BinOps, l \in Operands, r \in Operands : Compile(AssignY(BinOp(l, op, r)))
OpCompare ==
    MoreOps /\ \E op \in CompareOps, l \in Operands, r \in Operands :
                  Compile(AssignY(Compare(l, <<op>>, <<r>>)))
OpBool ==
    MoreOps /\ \E op \in BoolOps, l \in Operands, r \in Operands :
                  Compile(AssignY(BoolOp(op, <<l, r>>)))
OpLiteral == MoreOps /\ \E c \in Literals : Compile(AssignY(c))

NextExpr == Prelude \/ OpBin \/ OpCompare \/ OpBool \/ OpLiteral
SpecExpr == InitDefault /\ [][NextExpr]_vars

(* the step visits the statement stmt *)
Visits(stmt) == body' = Append(body, stmt)

(* the line an assignment of the bytes bs of a NUMBER appends *)
NumberLine(bs) == bs \o B_ASSIGN \o Last(free_vars[T_NUMBER])

(* both operands translate to NUMBER Codes *)
BothNumbers(l_eval, r_eval) ==
    /\ l_eval.tag = "Code" /\ r_eval.tag = "Code"
    /\ l_eval.type = T_NUMBER /\ r_eval.type = T_NUMBER

(* what y = l ^ r leaves, for the Codes of l and r *)
XorOutcome(l_eval, r_eval) ==
    IF IS_BOOLEAN \in l_eval.flags /\ IS_BOOLEAN \in r_eval.flags
    THEN /\ error' = NoError
         /\ code' = Append(code, NumberLine(LPAREN \o l_eval.bytes \o B_XOR
                                            \o r_eval.bytes \o RPAREN))
    ELSE /\ error'.kind = "CasioNotSupportedError"
         /\ error'.help = "You can wrap each operand in bool() to use logical XOR instead"
         /\ code' = code

(* C5: l ^ r between two NUMBER operands translates, as "(" l XOR r ")",    *)
(* exactly when both operands carry IS_BOOLEAN; otherwise it fails with a   *)
(* not-supported error whose help text points to bool().                    *)
C5_Xor ==
    [][\A l, r \in Operands :
          (Visits(AssignY(BinOp(l, "BitXor", r))) /\ BothNumbers(visit(Table, l), visit(Table, r)))
              => XorOutcome(visit(Table, l), visit(Table, r))]_vars

C5_Witness ==
    /\ Len(body) = 2
    /\ body[2] = AssignY(BinOp(Call("bool", <<Num(0)>>), "BitXor", Call("bool", <<Num(0)>>)))
    /\ error = NoError
    /\ code[2] = <<40, 48>> \o B_XOR \o <<48, 41>> \o B_ASSIGN \o <<66>>

(* one operand translates to a NUMBER Code and the other to a STRING Code *)
Mismatch(l_eval, r_eval) ==
    /\ l_eval.tag = "Code" /\ r_eval.tag = "Code"
    /\ {l_eval.type, r_eval.type} = {T_NUMBER, T_STRING}

BinStmts(l, r) == {AssignY(BinOp(l, op, r)) : op \in BinOps}
CompareStmts(l, r, ops) == {AssignY(Compare(l, <<op>>, <<r>>)) : op \in ops}
BoolStmts(l, r) == {AssignY(BoolOp(op, <<l, r>>)) : op \in BoolOps}

(* the step visits a binary, comparison or boolean operation over l and r *)
VisitsOp(l, r) ==
    /\ Len(body') = Len(body) + 1
    /\ body'[Len(body')] \in BinStmts(l, r) \cup CompareStmts(l, r, CompareOps) \cup BoolStmts(l, r)

(* the statement as C6 gives it: an operator over one NUMBER and one STRING *)
(* fails with a type error that names both types                            *)
C6_NamesBoth ==
    [][\A l, r \in Operands :
          (VisitsOp(l, r) /\ Mismatch(visit(Table, l), visit(Table, r)))
              => /\ error'.kind = "CasioTypeError"
                 /\ Range(error'.named) = {T_NUMBER, T_STRING}]_vars

(* the comparison operators visit_Compare translates *)
TranslatedCompareOps == CompareOps \ {"In"}

(* the exception an operator over mismatched l and r raises *)
MismatchOutcome(stmt, l, r, l_eval, r_eval) ==
    /\ stmt \in BinStmts(l, r) =>
            error'.kind = "CasioTypeError" /\ error'.named = <<l_eval.type, r_eval.type>>
    /\ stmt \in BoolStmts(l, r) \cup CompareStmts(l, r, TranslatedCompareOps) =>
            error'.kind = "CasioTypeError" /\ error'.named = <<T_STRING>>
    /\ stmt \in CompareStmts(l, r, CompareOps \ TranslatedCompareOps) =>
            IF l_eval.type = T_STRING
            THEN error'.kind = "CasioTypeError" /\ error'.named = <<T_STRING>>
            ELSE error'.kind = "CasioNotSupportedError"
    /\ UNCHANGED <<symbols, syms, free_vars, code>>

(* C6: an operator over one NUMBER and one STRING operand fails and emits   *)
(* nothing.  A binary operator fails with a type error naming both types,   *)
(* left then right; a comparison or boolean operator with a type error      *)
(* naming STRING only, the type that is not NUMBER; a comparison the        *)
(* translator does not support, with the NUMBER on its left, fails with a   *)
(* not-supported error.                                                     *)
C6_TypeError ==
    [][\A l, r \in Operands :
          (VisitsOp(l, r) /\ Mismatch(visit(Table, l), visit(Table, r)))
              => MismatchOutcome(body'[Len(body')], l, r, visit(Table, l), visit(Table, r))]_vars

C6_Witness ==
    /\ Len(body) = 2
    /\ body[2] = AssignY(Compare(Num(1), <<"Lt">>, <<Str(BytesA)>>))
    /\ error.kind = "CasioTypeError"
    /\ error.named = <<T_STRING>>
    /\ Len(code) = 1

(* C10: a literal that is neither a string nor a number, such as True,      *)
(* False or None, fails with a not-supported error and yields no Code: no   *)
(* line is emitted and no symbol bound.                                     *)
C10_LiteralRejected ==
    [][\A c \in Literals :
          (Visits(AssignY(c)) /\ c.value.t \notin {"str", "int", "float"})
              => /\ error'.kind = "CasioNotSupportedError"
                 /\ UNCHANGED <<symbols, syms, free_vars, code>>]_vars

----------------------------------------------------------------------------
(* Programs of imports, in and out of the package, and an assignment        *)

MaxImports == 2

ImportPaths ==
    {<<"os">>, <<"os", "path">>, PACKAGE, CASIO_LIB, CASIO_LIB \o <<"input">>,
     PACKAGE \o <<"draw">>}
FromModules == ImportPaths \cup {<<>>}
FromNames == {"path", "casio", "input", "number_input"}
AsNames == {<<>>, <<"m">>}

MoreImports == Len(body) < MaxImports

ImportPlain ==
    MoreImports /\ \E p \in ImportPaths, a \in AsNames : Compile(Import(<<Alias(p, a)>>))
ImportFromModule ==
    MoreImports /\ \E mod \in FromModules, n \in FromNames, a \in AsNames :
                      Compile(ImportFrom(mod, <<Alias(<<n>>, a)>>))
AssignNumber == MoreImports /\ Compile(Assign(<<Name("z")>>, Num(1)))

NextImport == ImportPlain \/ ImportFromModule \/ AssignNumber
SpecImport == InitDefault /\ [][NextImport]_vars

(* a dotted path that does not lie in the namespace of the package *)
Outside(path) == path = <<>> \/ path[1] # "pycasio"

(* the step visits an import of a name from outside the package *)
OutsideImportStep ==
    /\ Len(body') = Len(body) + 1
    /\ \/ /\ body'[Len(body')].kind = "Import"
          /\ \A i \in DOMAIN body'[Len(body')].names : Outside(body'[Len(body')].names[i].name)
       \/ /\ body'[Len(body')].kind = "ImportFrom"
          /\ Outside(body'[Len(body')].module)

(* C8: an import, plain or from, of a name whose module lies outside the    *)
(* package raises nothing, warns of nothing and leaves the symbol table,    *)
(* the slot pools and the emitted lines as they were.                       *)
C8_OutsideIgnored ==
    [][OutsideImportStep =>
        /\ error' = NoError
        /\ UNCHANGED <<symbols, syms, free_vars, code, warned>>]_vars

C8_Witness ==
    /\ Len(body) = 2
    /\ body[1] = Assign(<<Name("z")>>, Num(1))
    /\ body[2] = ImportFrom(<<"os">>, <<Alias(<<"path">>, <<"m">>)>>)
    /\ error = NoError
    /\ DOMAIN symbols = {<<"z">>}

(* the step visits `from mod import func` for a module mod with a function  *)
(* registry in which func is not                                            *)
UnknownFunctionStep(mod, func) ==
    /\ Len(body') = Len(body) + 1
    /\ body'[Len(body')].kind = "ImportFrom"
    /\ body'[Len(body')].module = mod
    /\ body'[Len(body')].names[1].name = <<func>>
    /\ func \notin get_pycasio_functions[mod]

(* the statement as C9 gives it: the import fails with a not-supported      *)
(* error listing the functions of the module, and binds nothing             *)
C9_NotSupported ==
    [][\A mod \in DOMAIN get_pycasio_functions, func \in FromNames :
          UnknownFunctionStep(mod, func)
              => /\ error'.kind = "CasioNotSupportedError"
                 /\ error'.options = {<<f>> : f \in get_pycasio_functions[mod]}
                 /\ UNCHANGED <<symbols, syms>>]_vars

(* C9: `from mod import func`, for a module mod with a function registry in *)
(* which func is not, fails with the import error, CasioImportError, "is    *)
(* not a valid function", whose help text lists the functions registered    *)
(* for mod, and binds no symbol.                                            *)
C9_ImportError ==
    [][\A mod \in DOMAIN get_pycasio_functions, func \in FromNames :
          UnknownFunctionStep(mod, func)
              => /\ error'.kind = "CasioImportError"
                 /\ error'.msg = "{name} is not a valid {module} function"
                 /\ error'.help = "Possible functions: {list}"
                 /\ error'.options = {<<f>> : f \in get_pycasio_functions[mod]}
                 /\ UNCHANGED <<symbols, syms, free_vars, code>>]_vars

C9_Witness ==
    /\ Len(body) = 2
    /\ body[1] = Import(<<Alias(CASIO_LIB \o <<"input">>, <<"m">>)>>)
    /\ body[2] = ImportFrom(CASIO_LIB \o <<"input">>, <<Alias(<<"path">>, <<>>)>>)
    /\ error.kind = "CasioImportError"
    /\ DOMAIN symbols = {<<"m">>}

----------------------------------------------------------------------------
(* Programs with a statement of every kind: imports, assignments of Codes   *)
(* and of module references to one or several targets, bare expressions,    *)
(* and statements the visitor has no method for                             *)

MaxKinds == 3

KindImports ==
    {Import(<<Alias(CASIO_LIB, <<"x">>)>>),
     ImportFrom(PACKAGE, <<Alias(<<"casio">>, <<>>)>>),
     Import(<<Alias(<<"os">>, <<>>)>>),
     Import(<<Alias(PACKAGE \o <<"draw">>, <<>>)>>)}
KindAssigns ==
    {Assign(<<Name("x")>>, Num(1)),
     Assign(<<Name("x")>>, Str(BytesA)),
     Assign(<<Name("y")>>, Name("x")),
     Assign(<<Name("x"), Name("y")>>, Num(2)),
     Assign(<<Name("y")>>, Attribute(<<"casio", "input">>)),
     Assign(<<Name("y")>>, Attribute(<<"x", "input">>)),
     Assign(<<Name("x"), Name("y")>>, Attribute(<<"casio", "input">>)),
     Assign(<<Name("x"), Attribute(<<"y", "z">>)>>, Num(1))}
KindExprs ==
    {ExprStmt(Name("x")),
     ExprStmt(Call("print", <<Name("x")>>)),
     ExprStmt(Call("print", <<>>)),
     ExprStmt(Call("abs", <<Num(1)>>)),
     ExprStmt(Call("input", <<>>))}
KindOthers == {Pass, If(Name("x"), <<Pass>>), AugAssign(Name("x"), Num(1))}

MoreKinds == Len(body) < MaxKinds

KindImport == MoreKinds /\ \E s \in KindImports : Compile(s)
KindAssign == MoreKinds /\ \E s \in KindAssigns : Compile(s)
KindExpr == MoreKinds /\ \E s \in KindExprs : Compile(s)
KindOther == MoreKinds /\ \E s \in KindOthers : Compile(s)

NextKinds == KindImport \/ KindAssign \/ KindExpr \/ KindOther
SpecKinds == Init /\ [][NextKinds]_vars

(* the outcomes of the step that visits a statement: it raised; it added    *)
(* lines and warned of nothing; it added nothing and warned; it added       *)
(* nothing, warned of nothing and raised nothing                            *)
Failed == error' # NoError
Appended == error' = NoError /\ Len(code') > Len(code) /\ warned' = warned
Suppressed == error' = NoError /\ code' = code /\ Len(warned') = Len(warned) + 1
Silent == error' = NoError /\ code' = code /\ warned' = warned

VisitStep == Len(body') = Len(body) + 1

SilentKind(stmt, rhs) ==
    \/ stmt.kind \in {"Import", "ImportFrom"}
    \/ stmt.kind \notin {"Import", "ImportFrom", "Expr", "Assign"}
    \/ stmt.kind = "Assign" /\ rhs.tag = "ModulePath"
    \/ stmt.kind = "Expr" /\ IGNORE_WARNINGS \in flags

(* what the right-hand side of the statement translates to, None for        *)
(* a statement that is no assignment                                        *)
RhsOf(stmt) == IF stmt.kind = "Assign" THEN visit(Table, stmt.value) ELSE NoneResult

FreshContext ==
    [T |-> [symbols |-> <<>>, syms |-> <<>>, free_vars |-> InitFreeVars],
     code |-> <<>>, warned |-> <<>>, flags |-> flags]

RECURSIVE Replayed(_, _)
(* the context the first n statements of stmts leave *)
Replayed(stmts, n) ==
    IF n = 0 THEN FreshContext ELSE visit_stmt(Replayed(stmts, n - 1), stmts[n]).C

(* what the right-hand side of the i-th statement translated to *)
RhsAt(i) == visit(Replayed(body, i - 1).T, body[i].value)

(* the names among the targets of an assignment *)
TargetNames(stmt) ==
    {stmt.targets[k].id : k \in {j \in DOMAIN stmt.targets : stmt.targets[j].kind = "Name"}}

(* the i-th statement assigned a Code to the name n *)
CodeBinding(i, n) ==
    /\ body[i].kind = "Assign"
    /\ n \in TargetNames(body[i])
    /\ RhsAt(i).tag = "Code"

(* the i-th statement bound the name n: an assignment to n or an import of  *)
(* a module under the name n                                                *)
Binding(i, n) ==
    \/ body[i].kind = "Assign" /\ n \in TargetNames(body[i])
    \/ /\ body[i].kind \in {"Import", "ImportFrom"}
       /\ \E k \in DOMAIN body[i].names : bound_name(body[i].names[k]) = <<n>>

Latest(K) == CHOOSE i \in K : \A j \in K : j <= i

(* the table binds n to a symbol with the type and the bytes of rhs *)
HoldsRhs(n, rhs) ==
    /\ <<n>> \in DOMAIN symbols
    /\ syms[symbols[<<n>>]].type = rhs.type
    /\ syms[symbols[<<n>>]].value = BytesValue(rhs.bytes)

(* the statement that took the context from before to after appended, for   *)
(* the name n, the line rhs ASSIGN token, the token being the one of the    *)
(* symbol it bound n to                                                     *)
LineFor(n, rhs, before, after) ==
    \E j \in (Len(before.code) + 1)..Len(after.code) :
        /\ after.T.syms[after.T.symbols[<<n>>]].var # NoneBytes
        /\ after.code[j] = rhs.bytes \o B_ASSIGN \o after.T.syms[after.T.symbols[<<n>>]].var

EveryLine(n, K) ==
    \A i \in K : LineFor(n, RhsAt(i), Replayed(body, i - 1), Replayed(body, i))

(* the statement as C12 gives it: after a successful compilation a name     *)
(* that was assigned a Code holds the type and bytes of the last Code       *)
(* assigned to it, and every such assignment appended its line              *)
C12_LastAssign ==
    error = NoError =>
        \A n \in {"x", "y"} :
            {i \in DOMAIN body : CodeBinding(i, n)} # {} =>
                /\ HoldsRhs(n, RhsAt(Latest({i \in DOMAIN body : CodeBinding(i, n)})))
                /\ EveryLine(n, {i \in DOMAIN body : CodeBinding(i, n)})

(* C12: after a successful compilation, a name whose latest binding is an   *)
(* assignment of a Code (no later import or assignment of a module          *)
(* reference bound it again) is in the table with the type and the bytes of *)
(* that right-hand side; and every assignment of a Code to a name appended  *)
(* the line right-hand bytes, ASSIGN, token of the symbol it created.       *)
C12_LatestBinding ==
    error = NoError =>
        \A n \in {"x", "y"} :
            {i \in DOMAIN body : CodeBinding(i, n)} # {} =>
                /\ Latest({i \in DOMAIN body : Binding(i, n)})
                        \in {i \in DOMAIN body : CodeBinding(i, n)}
                      => HoldsRhs(n, RhsAt(Latest({i \in DOMAIN body : CodeBinding(i, n)})))
                /\ EveryLine(n, {i \in DOMAIN body : CodeBinding(i, n)})

C12_Witness ==
    /\ body = <<Assign(<<Name("x")>>, Num(1)), Assign(<<Name("x")>>, Str(BytesA)),
                Assign(<<Name("y")>>, Name("x"))>>
    /\ error = NoError
    /\ syms[symbols[<<"x">>]].type = T_STRING
    /\ syms[symbols[<<"y">>]].value = BytesValue(StringPool[Len(StringPool)])
    /\ Len(code) = 3

(* the dotted path the k-th name of an import statement resolves to *)
ResolvedPath(stmt, k) ==
    IF stmt.kind = "Import" THEN stmt.names[k].name
    ELSE stmt.module \o stmt.names[k].name

(* the k-th name of an import statement is a registered module, or a        *)
(* function registered for the module it is imported from                   *)
RegisteredImport(stmt, k) ==
    IF stmt.kind = "Import" THEN stmt.names[k].name \in get_pycasio_modules
    ELSE /\ stmt.module \in get_pycasio_modules
         /\ \/ stmt.module \o stmt.names[k].name \in get_pycasio_modules
            \/ /\ stmt.module \in DOMAIN get_pycasio_functions
               /\ Last(stmt.names[k].name) \in get_pycasio_functions[stmt.module]

(* the table binds key to a NULL symbol without a slot whose value is path *)
AliasOf(key, path) ==
    /\ key \in DOMAIN symbols'
    /\ syms'[symbols'[key]].type = T_NULL
    /\ syms'[symbols'[key]].var = NoneBytes
    /\ syms'[symbols'[key]].value = PathValue(path)

(* the step visits an import statement, which succeeds *)
ImportStep ==
    /\ Len(body') = Len(body) + 1
    /\ body'[Len(body')].kind \in {"Import", "ImportFrom"}
    /\ error' = NoError

ImportEffect(stmt) ==
    /\ \A k \in DOMAIN stmt.names :
          RegisteredImport(stmt, k) =>
              AliasOf(IF stmt.names[k].asname # <<>> THEN stmt.names[k].asname
                      ELSE stmt.names[k].name,
                      ResolvedPath(stmt, k))
    /\ free_vars' = free_vars
    /\ code' = code

(* C13: after a successful import, plain or from, with or without an alias, *)
(* of a registered module or function, the table maps the bound name (the   *)
(* alias if given, else the imported name) to a NULL symbol without a slot  *)
(* whose value is the resolved dotted path; no slot is taken from a pool    *)
(* and no line is emitted.                                                  *)
C13_ImportBinds == [][ImportStep => ImportEffect(body'[Len(body')])]_vars

C13_Witness ==
    /\ body = <<Import(<<Alias(CASIO_LIB, <<"m">>)>>),
                ImportFrom(CASIO_LIB, <<Alias(<<"input">>, <<>>)>>)>>
    /\ error = NoError
    /\ DOMAIN symbols = {<<"m">>, <<"input">>}
    /\ syms[symbols[<<"m">>]].value = PathValue(CASIO_LIB)
    /\ syms[symbols[<<"input">>]].value = PathValue(CASIO_LIB \o <<"input">>)
    /\ syms[symbols[<<"input">>]].var = NoneBytes
    /\ free_vars = InitFreeVars
    /\ code = <<>>

----------------------------------------------------------------------------
(* The G1M header: Header(bytecount, program_name, password), which export  *)
(* calls with the length of the joined lines                                *)

(* the character class of Header.ALLOWED_PROG_NAME: A-Z, 0-9 and            *)
(* . space [ ] { } ' " ~ + - * / r @                                        *)
ALLOWED_PROG_NAME ==
    (65..90) \cup (48..57) \cup {46, 32, 91, 93, 123, 125, 39, 34, 126, 43, 45, 42, 47, 114, 64}

(* ALLOWED_PROG_NAME.match(name): ^[...]+$ takes one character of the class *)
(* or more, and $ matches at the end and before a newline that ends the     *)
(* string                                                                   *)
re_match(name) ==
    \/ name # <<>> /\ Range(name) \subseteq ALLOWED_PROG_NAME
    \/ /\ Len(name) > 1
       /\ Last(name) = 10
       /\ Range(Front(name)) \subseteq ALLOWED_PROG_NAME

(* Header.verify_str *)
verify_str(name, allowed_length) == Len(name) \in allowed_length /\ re_match(name)

(* Header.convert_str *)
convert_str(name) ==
    ReplaceByte(ReplaceByte(ReplaceByte(ReplaceByte(ReplaceByte(ReplaceByte(
        name, 43, B_ADD), 45, B_SUBTRACT), 42, B_MULTIPLY), 47, B_DIVIDE),
        114, B_RADIUS), 64, B_THETA)

(* struct.pack of an unsigned integer, big-endian, on width bytes *)
pack_uint(n, width) == [i \in 1..width |-> (n \div (256 ^ (width - i))) % 256]

(* struct.pack of a byte string on width bytes, padded with null bytes *)
pack_s(bs, width) == [i \in 1..width |-> IF i <= Len(bs) THEN bs[i] ELSE 0]

(* Header.__init__ past the checks: the packed header *)
header_pack(code_size, program_name, password, base_mode) ==
    <<85, 83, 66, 80, 111, 119, 101, 114, 49, 0, 16, 0, 16, 0>>
    \o pack_uint((code_size + 149) % 256, 1) \o <<1>>
    \o pack_uint(code_size + 84, 4) \o pack_uint((code_size + 12) % 256, 1)
    \o <<255, 255, 255, 255, 255, 255, 255, 255, 255, 0, 1>>
    \o <<80, 82, 79, 71, 82, 65, 77>> \o pack_s(<<>>, 12) \o <<1>>
    \o <<115, 121, 115, 116, 101, 109, 0, 0>>
    \o pack_s(convert_str(program_name), 8) \o <<1, 0, 0>>
    \o pack_uint(code_size + 8, 2) \o <<0, 0, 0>>
    \o pack_s(convert_str(password), 8) \o pack_uint(base_mode, 1) \o <<0>>

(* Header.__init__, given 4 * ceil((bytecount + 3) / 4): the header, or the *)
(* ValueError it raises                                                     *)
header_init(code_size, program_name, password, base_mode) ==
    IF ~verify_str(program_name, 1..8)
    THEN [header |-> <<>>,
          err |-> Err("ValueError", "{name} is not a valid program name", <<>>, "", {})]
    ELSE IF code_size + 8 > 65535
    THEN [header |-> <<>>,
          err |-> Err("ValueError", "Program too large: {b4} bytes > {0xffff}", <<>>, "", {})]
    ELSE IF ~verify_str(password, 0..8)
    THEN [header |-> <<>>,
          err |-> Err("ValueError", "{password} is not a valid password", <<>>, "", {})]
    ELSE [header |-> header_pack(code_size, program_name, password, base_mode),
          err |-> NoError]

(* Header(bytecount, program_name, password, base_mode) *)
Header(bytecount, program_name, password, base_mode) ==
    header_init(4 * ((bytecount + 6) \div 4), program_name, password, base_mode)

(* Names and passwords: a run of one character, up to MaxText long, then    *)
(* nothing, a newline or a lower-case letter                                *)

MaxText == 9

Run(c, n) == [i \in 1..n |-> c]
Texts == {Run(c, n) \o tail : c \in {65, 43}, n \in 0..MaxText, tail \in {<<>>, <<10>>, BytesA}}
ByteCounts == {0, 9, 65521, 65522}

HeaderLeaves(bytecount, program_name, password, r) ==
    /\ error' = r.err
    /\ last' = [op |-> "Header", bytecount |-> bytecount, program_name |-> program_name,
                password |-> password, header |-> r.header]

HeaderNew ==
    /\ last.op = "init"
    /\ \E bytecount \in ByteCounts, program_name \in Texts, password \in Texts :
          HeaderLeaves(bytecount, program_name, password,
                       Header(bytecount, program_name, password, 0))
    /\ UNCHANGED <<symbols, syms, free_vars, code, warned, flags, body>>

NextHeader == HeaderNew
SpecHeader == InitDefault /\ [][NextHeader]_vars

(* a text of lo to hi characters, all of them in the allowed set *)
AllowedText(text, lo, hi) ==
    Len(text) \in lo..hi /\ Range(text) \subseteq ALLOWED_PROG_NAME

(* C14: the header writer accepts a program name if and only if it has 1 to *)
(* 8 characters and a password if and only if it has 0 to 8 characters, the *)
(* empty password included, all characters being in the allowed set; every  *)
(* other name or password is rejected with an error.                        *)
C14_NameAndPassword ==
    last.op = "Header" /\ last.bytecount < 65521 =>
        (error = NoError <=> /\ AllowedText(last.program_name, 1, 8)
                             /\ AllowedText(last.password, 0, 8))

----------------------------------------------------------------------------
(* Programs a = 1; s = e, e a simple infix operation nested up to MaxDepth  *)
(* deep on either side                                                      *)

MaxDepth == 2

SimpleOps == {"Mult", "Add", "Sub", "Div", "Pow"}
NestLeaves == {Num(1), Num(2), Name("a"), Call("bool", <<Num(0)>>)}
OuterLeaves == {Num(2), Call("bool", <<Num(0)>>)}

RECURSIVE Nested(_)
Nested(d) ==
    IF d = 1 THEN {BinOp(l, op, r) : l \in NestLeaves, op \in SimpleOps, r \in NestLeaves}
    ELSE Nested(d - 1)
         \cup {BinOp(l, op, r) : l \in Nested(d - 1), op \in SimpleOps, r \in OuterLeaves}
         \cup {BinOp(l, op, r) : l \in OuterLeaves, op \in SimpleOps, r \in Nested(d - 1)}

NestPrelude == Len(body) = 0 /\ Compile(Assign(<<Name("a")>>, Num(1)))
NestAssign == Len(body) = 1 /\ \E e \in Nested(MaxDepth) : Compile(Assign(<<Name("s")>>, e))

NextNest == NestPrelude \/ NestAssign
SpecNest == InitDefault /\ [][NextNest]_vars

(* the byte of a simple infix operator *)
InfixByte(op) ==
    CASE op = "Mult" -> B_MULTIPLY
      [] op = "Add" -> B_ADD
      [] op = "Sub" -> B_SUBTRACT
      [] op = "Div" -> B_DIVIDE
      [] op = "Pow" -> B_POWER

(* ( left operator right ), flagged with what both operands are flagged with *)
InfixOf(l, op, r) ==
    [bytes |-> <<40>> \o l.bytes \o InfixByte(op) \o r.bytes \o <<41>>,
     flags |-> l.flags \cap r.flags]

RECURSIVE Infix(_, _)
(* the fully parenthesised form of a nest of simple infix operations, its   *)
(* leaves translated as the translator translates them                      *)
Infix(T, e) ==
    IF e.kind = "BinOp" THEN InfixOf(Infix(T, e.left), e.op, Infix(T, e.right))
    ELSE visit(T, e)

(* the step visits s = e, e a simple infix operation *)
NestStep ==
    /\ Len(body') = Len(body) + 1
    /\ body'[Len(body')].kind = "Assign"
    /\ body'[Len(body')].value.kind = "BinOp"

NestEffect(e_eval, expected) ==
    /\ e_eval.tag = "Code"
    /\ e_eval.type = T_NUMBER
    /\ e_eval.bytes = expected.bytes
    /\ e_eval.flags = expected.flags
    /\ error' = NoError
    /\ code' = Append(code, expected.bytes \o B_ASSIGN \o Last(free_vars[T_NUMBER]))

(* C15: a simple infix operation (multiply, add, subtract, divide, power)   *)
(* on NUMBER operands yields ( left operator right ) with no parenthesis    *)
(* left out at any depth of nesting, flagged with the flags both operands   *)
(* have; s = (a - 1) ** 2 emits ((a-slot SUB 1) POW 2) ASSIGN s-slot.       *)
C15_Parenthesised ==
    [][NestStep => NestEffect(visit(Table, body'[Len(body')].value),
                              Infix(Table, body'[Len(body')].value))]_vars

C15_Witness ==
    /\ body = <<Assign(<<Name("a")>>, Num(1)),
                Assign(<<Name("s")>>, BinOp(BinOp(Name("a"), "Sub", Num(1)), "Pow", Num(2)))>>
    /\ error = NoError
    /\ code = <<<<49>> \o B_ASSIGN \o <<65>>,
                <<40, 40, 65>> \o B_SUBTRACT \o <<49, 41>> \o B_POWER \o <<50, 41>>
                    \o B_ASSIGN \o <<66>>>>

----------------------------------------------------------------------------
(* The pools during a compilation *)

(* the pool after the step is what is left of the pool before it when       *)
(* tokens are taken off its end                                             *)
OnlyTaken(t) ==
    /\ Len(free_vars'[t]) <= Len(free_vars[t])
    /\ free_vars'[t] = SubSeq(free_vars[t], 1, Len(free_vars'[t]))

(* a symbol that holds a token keeps it, and the token is in no pool *)
KeptOut(i) ==
    syms[i].var # NoneBytes =>
        /\ i \in DOMAIN syms'
        /\ syms'[i] = syms[i]
        /\ \A t \in DOMAIN free_vars : syms[i].var \notin Range(free_vars'[t])

(* C16: during a compilation no token is returned to a pool: no step of the *)
(* translator makes a pool longer or puts a token into it, and every symbol *)
(* that was given a token, the symbol a name was bound to before it was     *)
(* assigned again included, keeps it out of the pool.                       *)
C16_NeverFreed ==
    [][(\A t \in DOMAIN free_vars : OnlyTaken(t)) /\ (\A i \in DOMAIN syms : KeptOut(i))]_vars

(* x was assigned twice: the token A of its first symbol is still held by   *)
(* that symbol and x is bound to another                                    *)
C16_Witness ==
    /\ Len(body) = 3
    /\ body[1] = Assign(<<Name("x")>>, Num(1))
    /\ body[2] = Assign(<<Name("x"), Name("y")>>, Num(2))
    /\ error = NoError
    /\ syms[1].var = <<65>>
    /\ symbols[<<"x">>] = 2
    /\ Len(free_vars[T_NUMBER]) < Len(NumberPool) - 2
    /\ <<65>> \notin Range(free_vars[T_NUMBER])

----------------------------------------------------------------------------
(* The order in which the table hands out and takes back tokens *)

(* the step is a call of new that gave a NUMBER or STRING symbol a token *)
NewStep ==
    /\ last'.op = "new"
    /\ error' = NoError
    /\ Len(syms') = Len(syms) + 1
    /\ syms'[Len(syms')].type # T_NULL

(* the new symbol holds the last token of the pool of its type, which the   *)
(* pool has lost                                                            *)
TakesLast(sym) ==
    /\ free_vars[sym.type] # <<>>
    /\ sym.var = Last(free_vars[sym.type])
    /\ free_vars' = [free_vars EXCEPT ![sym.type] = Front(@)]

(* the step is a call of free *)
FreeStep == last'.op = "free"

(* free of the symbol i: its token, if it holds one, becomes the last of    *)
(* the pool of its type and the symbol holds none; if it holds none the     *)
(* pools and the symbols stay as they are                                   *)
GivesBack(i) ==
    IF syms[i].var # NoneBytes
    THEN /\ free_vars' = [free_vars EXCEPT ![syms[i].type] = Append(@, syms[i].var)]
         /\ Last(free_vars'[syms[i].type]) = syms[i].var
         /\ syms' = [syms EXCEPT ![i].var = NoneBytes]
    ELSE free_vars' = free_vars /\ syms' = syms

(* as long as nothing was freed the k-th symbol of a table of NUMBER        *)
(* symbols holds the k-th token from the end of the pool: A, B, C, ...      *)
InOrder ==
    (\A j \in DOMAIN syms' : syms'[j].type = T_NUMBER /\ syms'[j].var # NoneBytes)
        => \A j \in DOMAIN syms' : syms'[j].var = <<64 + j>>

(* C17: allocation is last-in-first-out per type: new hands out the last    *)
(* token of the pool of the type (A, B, C, ... for the NUMBER symbols of a  *)
(* fresh table), free puts the token of the symbol at the end of the pool,  *)
(* from where the next new of that type takes it, and clears the slot of    *)
(* the symbol, so that a second free of the symbol changes nothing.         *)
C17_LastInFirstOut ==
    [][/\ NewStep => TakesLast(syms'[Len(syms')])
       /\ FreeStep => \E i \in DOMAIN syms : syms[i].name = last'.name /\ GivesBack(i)
       /\ InOrder]_vars

(* x was given A and freed, and A and then B were handed out again *)
C17_Witness ==
    /\ Len(syms) = 3
    /\ last.op = "new"
    /\ syms[1].type = T_NUMBER /\ syms[1].var = NoneBytes
    /\ syms[2].var = <<65>>
    /\ syms[3].var = <<66>>
    /\ Len(free_vars[T_NUMBER]) = Len(NumberPool) - 2

----------------------------------------------------------------------------
(* References to names *)

(* the statement as C18 gives it, of the name n and of what visit_Name      *)
(* returned for it: the bytes are the value stored in the symbol            *)
NameValueOutcome(n, r) ==
    IF <<n>> \in DOMAIN symbols
    THEN /\ r.tag = "Code"
         /\ r.bytes = syms[symbols[<<n>>]].value.bytes
         /\ r.type = syms[symbols[<<n>>]].type
    ELSE r.tag = "Raise" /\ r.err.kind = "CasioNameError"

C18_StoredValue == \A n \in {"x", "y", "z"} : NameValueOutcome(n, visit(Table, Name(n)))

(* of the name n and of what visit_Name returned for it: the bytes are the  *)
(* storage token of the symbol                                              *)
NameTokenOutcome(n, r) ==
    IF <<n>> \in DOMAIN symbols
    THEN /\ r.tag = "Code"
         /\ r.bytes = syms[symbols[<<n>>]].var
         /\ r.type = syms[symbols[<<n>>]].type
         /\ syms[symbols[<<n>>]].type # T_NULL => r.bytes # NoneBytes
    ELSE r.tag = "Raise" /\ r.err.kind = "CasioNameError"

(* C18: a reference to a name present in the symbol table translates to a   *)
(* Code whose bytes are the storage token of the symbol the name is bound   *)
(* to (no token for a NULL symbol, which has no slot) and whose type is the *)
(* type of that symbol; a reference to a name absent from the table fails   *)
(* with the name error, CasioNameError.                                     *)
C18_StorageToken == \A n \in {"x", "y", "z"} : NameTokenOutcome(n, visit(Table, Name(n)))

(* y = x was translated after x was assigned twice: the line assigns the    *)
(* token of the second symbol of x, not the bytes "a" it stores             *)
C18_Witness ==
    /\ body = <<Assign(<<Name("x")>>, Num(1)), Assign(<<Name("x")>>, Str(BytesA)),
                Assign(<<Name("y")>>, Name("x"))>>
    /\ error = NoError
    /\ code[3] = syms[2].var \o B_ASSIGN \o syms[3].var
    /\ syms[2].value.bytes # syms[2].var
    /\ symbols[<<"x">>] = 2

----------------------------------------------------------------------------
(* Programs x = literal; from pycasio import casio; t1 = ... = tn = value,  *)
(* with up to MaxTargets targets                                            *)

MaxTargets == 2

MultiTargets == {Name("x"), Name("y"), Attribute(<<"y", "z">>)}
TargetLists == UNION {[1..n -> MultiTargets] : n \in 1..MaxTargets}
MultiValues ==
    {Num(2), Name("x"), Str(BytesA), Call("input", <<>>), Attribute(<<"casio", "input">>),
     Name("w"), Call("print", <<>>), BinOp(Name("x"), "Add", Num(1))}

MultiFirst ==
    Len(body) = 0 /\ \E v \in {Num(1), Str(BytesA)} : Compile(Assign(<<Name("x")>>, v))
MultiImport ==
    Len(body) = 1 /\ Compile(ImportFrom(PACKAGE, <<Alias(<<"casio">>, <<>>)>>))
MultiAssign ==
    Len(body) = 2 /\ \E ts \in TargetLists, v \in MultiValues : Compile(Assign(ts, v))

NextMulti == MultiFirst \/ MultiImport \/ MultiAssign
SpecMulti == InitDefault /\ [][NextMulti]_vars

(* the step visits an assignment whose targets are all names *)
NamesAssignStep ==
    /\ Len(body') = Len(body) + 1
    /\ body'[Len(body')].kind = "Assign"
    /\ \A k \in DOMAIN body'[Len(body')].targets : body'[Len(body')].targets[k].kind = "Name"

(* a Code that can be assigned *)
Assignable(r) == r.tag = "Code" /\ r.type # T_NULL /\ PREVENT_ASSIGNMENT \notin r.flags

(* the k-th target got the k-th new symbol, the k-th token from the end of  *)
(* the pool and the k-th new line                                           *)
TargetEffect(k, id, r) ==
    /\ syms'[Len(syms) + k].name = <<id>>
    /\ syms'[Len(syms) + k].type = r.type
    /\ syms'[Len(syms) + k].value = BytesValue(r.bytes)
    /\ syms'[Len(syms) + k].var = free_vars[r.type][Len(free_vars[r.type]) - k + 1]
    /\ code'[Len(code) + k] = r.bytes \o B_ASSIGN \o syms'[Len(syms) + k].var
    /\ symbols'[<<id>>] >= Len(syms) + k

MultiEffect(targets, r) ==
    /\ error' = NoError
    /\ Len(code') = Len(code) + Len(targets)
    /\ Len(syms') = Len(syms) + Len(targets)
    /\ SubSeq(code', 1, Len(code)) = code
    /\ free_vars'[r.type] = SubSeq(free_vars[r.type], 1, Len(free_vars[r.type]) - Len(targets))
    /\ \A k \in DOMAIN targets : TargetEffect(k, targets[k].id, r)

(* C19: an assignment with several targets evaluates the right-hand side    *)
(* once, in the context before the assignment, and processes every target   *)
(* in order against that result: each name gets a symbol and a token of its *)
(* own, and one line, the same right-hand bytes, ASSIGN and the token of    *)
(* the target, is appended per target.                                      *)
C19_EveryTarget ==
    [][NamesAssignStep /\ Assignable(visit(Table, body'[Len(body')].value))
          => MultiEffect(body'[Len(body')].targets, visit(Table, body'[Len(body')].value))]_vars

(* x = y = x with x bound to A: both lines assign A, the result of the one  *)
(* evaluation, to the new tokens B and C                                    *)
C19_Witness ==
    /\ Len(body) = 3
    /\ body[1] = Assign(<<Name("x")>>, Num(1))
    /\ body[3] = Assign(<<Name("x"), Name("y")>>, Name("x"))
    /\ error = NoError
    /\ code[2] = <<65>> \o B_ASSIGN \o <<66>>
    /\ code[3] = <<65>> \o B_ASSIGN \o <<67>>
    /\ symbols[<<"x">>] = 3 /\ symbols[<<"y">>] = 4

(* the step visits an assignment *)
AssignStep ==
    /\ Len(body') = Len(body) + 1
    /\ body'[Len(body')].kind = "Assign"

(* the targets up to the k-th are all names *)
NamesUpTo(targets, k) == \A j \in 1..k : targets[j].kind = "Name"

AliasEffect(targets, r) ==
    /\ code' = code
    /\ free_vars' = free_vars
    /\ warned' = warned
    /\ NamesUpTo(targets, Len(targets)) => error' = NoError
    /\ \A k \in DOMAIN targets :
          NamesUpTo(targets, k) => AliasOf(<<targets[k].id>>, r.path)

(* C20: when the right-hand side of an assignment translates to a resolved  *)
(* ModulePath, each Name target becomes a NULL alias symbol without a slot  *)
(* whose value is that ModulePath, and the assignment appends no line and   *)
(* takes no token from either pool.                                         *)
C20_AliasAssign ==
    [][AssignStep /\ visit(Table, body'[Len(body')].value).tag = "ModulePath"
          => AliasEffect(body'[Len(body')].targets, visit(Table, body'[Len(body')].value))]_vars

(* x = y = casio.input after x = 1: x and y are aliases of the module and   *)
(* the only line and the only token taken are those of x = 1                *)
C20_Witness ==
    /\ Len(body) = 3
    /\ body[1] = Assign(<<Name("x")>>, Num(1))
    /\ body[3] = Assign(<<Name("x"), Name("y")>>, Attribute(<<"casio", "input">>))
    /\ error = NoError
    /\ Len(code) = 1
    /\ syms[symbols[<<"x">>]].type = T_NULL
    /\ syms[symbols[<<"y">>]].value = PathValue(CASIO_LIB \o <<"input">>)
    /\ Len(free_vars[T_NUMBER]) = Len(NumberPool) - 1
    /\ free_vars[T_STRING] = StringPool

----------------------------------------------------------------------------
(* Attribute references *)

(* the step visits an assignment of an attribute reference *)
AttributeStep ==
    /\ Len(body') = Len(body) + 1
    /\ body'[Len(body')].kind = "Assign"
    /\ body'[Len(body')].value.kind = "Attribute"

(* C21: an attribute reference that does not resolve to a registered module *)
(* or function fails with the invalid-reference import error,               *)
(* CasioImportError "is not a valid casio reference", also when its first   *)
(* matching prefix is a symbol that is no module alias.                     *)
C21_InvalidReference ==
    [][AttributeStep /\ visit(Table, body'[Len(body')].value).tag # "ModulePath"
          => /\ error'.kind = "CasioImportError"
             /\ error'.msg = "{value} is not a valid casio reference"]_vars

----------------------------------------------------------------------------
(* Programs x = 1; then one call of a recognised builtin with up to MaxArgs *)
(* arguments, as a statement, as the right-hand side of an assignment or as *)
(* the argument of another call                                             *)

MaxArgs == 2

Builtins == {"abs", "int", "bool", "input", "print"}
CallArgs ==
    {Num(1), Str(BytesA), Name("x"), Call("print", <<>>), Call("print", <<Num(1)>>),
     Call("input", <<>>), Call("input", <<Str(BytesA)>>)}
ArgLists == UNION {[1..n -> CallArgs] : n \in 0..MaxArgs}
Calls == {Call(f, args) : f \in Builtins, args \in ArgLists}
Outer == {"abs", "bool", "print"}

CallPrelude == Len(body) = 0 /\ Compile(Assign(<<Name("x")>>, Num(1)))
CallStatement == Len(body) = 1 /\ \E c \in Calls : Compile(ExprStmt(c))
CallAssign == Len(body) = 1 /\ \E c \in Calls : Compile(Assign(<<Name("y")>>, c))
CallArgument ==
    Len(body) = 1 /\ \E c \in Calls, f \in Outer : Compile(ExprStmt(Call(f, <<c>>)))

NextCall == CallPrelude \/ CallStatement \/ CallAssign \/ CallArgument
SpecCall == InitDefault /\ [][NextCall]_vars

(* the step visits the call c as a statement, as the right-hand side of an  *)
(* assignment or as the argument of a call                                  *)
VisitsCall(c) ==
    \/ body' = Append(body, ExprStmt(c))
    \/ body' = Append(body, Assign(<<Name("y")>>, c))
    \/ \E f \in Outer : body' = Append(body, ExprStmt(Call(f, <<c>>)))

(* the arguments a builtin requires and accepts *)
Required(f) == IF f \in {"abs", "int", "bool"} THEN 1 ELSE 0
Accepted(f) == 1

WrongArity(c) == Len(c.args) < Required(c.func.id) \/ Len(c.args) > Accepted(c.func.id)

(* C22: a call of a recognised builtin (abs, int, bool, input, print) with  *)
(* more arguments than the builtin accepts, or with a required argument     *)
(* missing, fails with the operation error, CasioOperationError, as a       *)
(* statement, as an argument and as the right-hand side of an assignment.   *)
C22_Arity ==
    [][\A c \in Calls : WrongArity(c) /\ VisitsCall(c)
          => error'.kind = "CasioOperationError"]_vars

(* the token byte of abs and of int *)
TokenByte(f) == IF f = "abs" THEN B_ABSOLUTE ELSE B_INT

(* the step visits y = f(a) *)
VisitsAssignCall(f, a) == body' = Append(body, Assign(<<Name("y")>>, Call(f, <<a>>)))

(* what y = f(a) leaves, of the Code a_eval of the argument *)
OneNumberOutcome(f, a_eval) ==
    IF a_eval.type = T_NUMBER
    THEN /\ error' = NoError
         /\ code' = Append(code, TokenByte(f) \o <<40>> \o a_eval.bytes \o <<41>>
                                  \o B_ASSIGN \o Last(free_vars[T_NUMBER]))
         /\ syms'[symbols'[<<"y">>]].type = T_NUMBER
    ELSE a_eval.type = T_STRING => error'.kind = "CasioTypeError"

(* an expression that translates to a Code that may be an argument *)
ArgumentCode(a_eval) ==
    a_eval.tag = "Code" /\ a_eval.type # T_NULL /\ PREVENT_ARGUMENT \notin a_eval.flags

(* C23: a call of abs or of int with exactly one NUMBER argument translates *)
(* to a NUMBER Code whose bytes are the token byte of the builtin           *)
(* (ABSOLUTE, INT), "(", the bytes of the argument and ")"; with a STRING   *)
(* argument it fails with a type error.                                     *)
C23_AbsInt ==
    [][\A f \in {"abs", "int"}, a \in CallArgs :
          VisitsAssignCall(f, a) /\ ArgumentCode(visit(Table, a))
              => OneNumberOutcome(f, visit(Table, a))]_vars

(* calls of print and of input that translate to a Code *)
PrintCalls == {Call("print", <<>>), Call("print", <<Num(1)>>)}
InputCalls == {Call("input", <<>>), Call("input", <<Str(BytesA)>>)}

(* the statement as C24 gives it: the result of a print or input call       *)
(* passed as an argument fails with the operation error                     *)
C24_OperationError ==
    [][\A f \in Builtins, a \in PrintCalls \cup InputCalls :
          VisitsCall(Call(f, <<a>>)) => error'.kind = "CasioOperationError"]_vars

(* C24: the result of an input(...) call passed as an argument to a         *)
(* recognised builtin fails with the operation error, CasioOperationError   *)
(* "cannot be used as an argument"; the result of a print(...) call, which  *)
(* is NULL-typed, fails with the type error, CasioTypeError "does not       *)
(* return a value".                                                         *)
C24_SideEffectArgument ==
    [][\A f \in Builtins :
          /\ \A a \in InputCalls :
                VisitsCall(Call(f, <<a>>))
                    => /\ error'.kind = "CasioOperationError"
                       /\ error'.msg = "This expression cannot be used as an argument"
          /\ \A a \in PrintCalls :
                VisitsCall(Call(f, <<a>>))
                    => /\ error'.kind = "CasioTypeError"
                       /\ error'.msg = "This expression does not return a value"]_vars

C24_Witness ==
    /\ Len(body) = 2
    /\ body[2] = ExprStmt(Call("abs", <<Call("print", <<Num(1)>>)>>))
    /\ error.kind = "CasioTypeError"
    /\ error.msg = "This expression does not return a value"
    /\ Len(code) = 1

(* what print() translates to *)
EmptyPrint(r) ==
    /\ r.tag = "Code"
    /\ r.type = T_NULL
    /\ r.bytes = <<>>
    /\ HAS_SIDE_EFFECTS \in r.flags

----------------------------------------------------------------------------
(* Programs x = 1; y = a comparison chain with up to MaxChain operators     *)

MaxChain == 2

ChainOperands == {Num(1), Name("x"), Str(BytesA)}
ChainOps == {"Eq", "Lt", "Gt", "LtE", "GtE", "NotEq", "In"}
LongOps == {"Lt", "LtE", "NotEq", "In"}

(* the chains of n operators: every operator between two operands, and a    *)
(* choice of them in the longer chains                                      *)
ChainsOf(n) ==
    {Compare(operands[1], ops, Tail(operands)) :
        operands \in [1..(n + 1) -> ChainOperands],
        ops \in [1..n -> IF n = 1 THEN ChainOps ELSE LongOps]}
Chains == UNION {ChainsOf(n) : n \in 1..MaxChain}

ChainPrelude == Len(body) = 0 /\ Compile(Assign(<<Name("x")>>, Num(1)))
ChainAssign == Len(body) = 1 /\ \E c \in Chains : Compile(Assign(<<Name("y")>>, c))

NextChain == ChainPrelude \/ ChainAssign
SpecChain == InitDefault /\ [][NextChain]_vars

(* the symbol of a supported comparison operator *)
Supported == {"Eq", "Lt", "Gt", "LtE", "GtE", "NotEq"}
OpSymbol(op) ==
    CASE op = "Eq" -> <<61>>
      [] op = "Lt" -> <<60>>
      [] op = "Gt" -> <<62>>
      [] op = "LtE" -> B_LT_EQUAL
      [] op = "GtE" -> B_GT_EQUAL
      [] op = "NotEq" -> B_NOT_EQUAL

RECURSIVE ChainBytes(_, _, _)
(* operand i, operator i, operand i + 1, ... of a chain *)
ChainBytes(evals, ops, i) ==
    IF i > Len(ops) THEN evals[i].bytes
    ELSE evals[i].bytes \o OpSymbol(ops[i]) \o ChainBytes(evals, ops, i + 1)

(* the step visits y = a comparison chain *)
ChainStep ==
    /\ Len(body') = Len(body) + 1
    /\ body'[Len(body')].kind = "Assign"
    /\ body'[Len(body')].value.kind = "Compare"

(* the operands of a chain, translated one by one *)
OperandCodes(c) == [i \in 1..(Len(c.comparators) + 1) |-> visit(Table, (<<c.left>> \o c.comparators)[i])]

(* the operands that are no NUMBER and the operators that are not supported *)
BadOperands(evals) == {i \in DOMAIN evals : evals[i].type # T_NUMBER}
BadOps(ops) == {i \in DOMAIN ops : ops[i] \notin Supported}

(* the chain translated to ( operand operator operand ... ), a NUMBER with  *)
(* the flag IS_BOOLEAN alone, and was assigned                              *)
ChainTranslated(r, evals, ops) ==
    /\ r.tag = "Code"
    /\ r.bytes = <<40>> \o ChainBytes(evals, ops, 1) \o <<41>>
    /\ r.type = T_NUMBER
    /\ r.flags = {IS_BOOLEAN}
    /\ error' = NoError
    /\ code' = Append(code, r.bytes \o B_ASSIGN \o Last(free_vars[T_NUMBER]))

(* the statement as C26 gives it: any operand that is no NUMBER gives the   *)
(* type error, any unsupported operator the not-supported error             *)
ChainAsStated(r, evals, ops) ==
    /\ BadOperands(evals) = {} /\ BadOps(ops) = {} => ChainTranslated(r, evals, ops)
    /\ BadOperands(evals) # {} => error'.kind = "CasioTypeError"
    /\ BadOps(ops) # {} => error'.kind = "CasioNotSupportedError"

C26_AnyOperand ==
    [][ChainStep => ChainAsStated(visit(Table, body'[Len(body')].value),
                                  OperandCodes(body'[Len(body')].value),
                                  body'[Len(body')].value.ops)]_vars

(* operand i stands before operator i: the first fault in source order *)
OperandFirst(bad_operands, bad_ops) ==
    /\ bad_operands # {}
    /\ \A j \in bad_ops : \E i \in bad_operands : i <= j

ChainOutcome(r, evals, ops) ==
    IF BadOperands(evals) = {} /\ BadOps(ops) = {} THEN ChainTranslated(r, evals, ops)
    ELSE /\ UNCHANGED <<code, symbols, syms, free_vars>>
         /\ IF OperandFirst(BadOperands(evals), BadOps(ops))
            THEN error'.kind = "CasioTypeError"
            ELSE error'.kind = "CasioNotSupportedError"

(* C26: a comparison chain of n operands and n - 1 supported operators, all *)
(* operands NUMBER, translates to ( operand1 op1 operand2 ... operand n ),  *)
(* every operand emitted once in source order, typed NUMBER with the flag   *)
(* IS_BOOLEAN alone; otherwise the first fault in source order decides: an  *)
(* operand that is no NUMBER, met before any unsupported operator, gives    *)
(* the type error, and an unsupported operator met before any such operand  *)
(* gives the not-supported error.                                           *)
C26_Chain ==
    [][ChainStep => ChainOutcome(visit(Table, body'[Len(body')].value),
                                 OperandCodes(body'[Len(body')].value),
                                 body'[Len(body')].value.ops)]_vars

(* y = 1 < x <= 1 *)
C26_Witness ==
    /\ Len(body) = 2
    /\ body[2] = Assign(<<Name("y")>>, Compare(Num(1), <<"Lt", "LtE">>, <<Name("x"), Num(1)>>))
    /\ error = NoError
    /\ code[2] = <<40, 49, 60, 65>> \o B_LT_EQUAL \o <<49, 41>> \o B_ASSIGN \o <<66>>

----------------------------------------------------------------------------
(* The suggestions of a failed import *)

(* the candidates with one segment more than path whose leading segments    *)
(* are path                                                                 *)
ImmediateLevel(path, candidates) ==
    {m \in candidates : Len(m) = Len(path) + 1 /\ SubSeq(m, 1, Len(path)) = path}

(* the step visits `from mod import name`, which fails for a name that is   *)
(* no module of mod                                                         *)
FailedFromStep(mod) ==
    /\ Len(body') = Len(body) + 1
    /\ body'[Len(body')].kind = "ImportFrom"
    /\ body'[Len(body')].module = mod
    /\ error'.kind = "CasioImportError"
    /\ error'.msg = "{name} is not a valid {module} module"

(* C27: direct_children(path, candidates) yields exactly the candidates     *)
(* that have one segment more than path and whose leading segments equal    *)
(* path, so that a failed `from module import name` lists the registered    *)
(* direct children of the module.                                           *)
C27_DirectChildren ==
    [][\A mod \in FromModules :
          FailedFromStep(mod)
              => /\ get_direct_children(mod, get_pycasio_modules)
                        = ImmediateLevel(mod, get_pycasio_modules)
                 /\ error'.options = ImmediateLevel(mod, get_pycasio_modules)]_vars

====
